---- MODULE Spec2Model ----
(***************************************************************************)
(* Degen-apes-swap: the two-sided NFT swap.                                *)
(*   - the ledger (old collection, new collection, token association)      *)
(*   - the fulfillment handler  POST /api/swap   (api/swap handler)        *)
(*   - the client orchestrator  swapSingleNFT / swapBatchNFTs /            *)
(*     swapMultipleNFTs         (src/utils/swapTransaction.ts)             *)
(*   - the NFT list component   NFTList (confirmation, result and          *)
(*     association dialogs around executeSwap / executeMassSwap)           *)
(***************************************************************************)
EXTENDS Integers, Sequences, FiniteSets, TLC

\* ------------------------------------------------------------------ bounds
MaxSerial == 2      \* serials 1..MaxSerial are named by direct requests
MaxLen == 2         \* longest serialNumbers array of a direct request
MaxCalls == 2       \* handler invocations that may run concurrently
MaxFaults == 1      \* handler-side faults: failed ownership queries, transient ledger failures
MaxFetches == 2     \* calls of fetchFromMirrorNode
MaxHeadroom == 1    \* request counters start at most this far below the threshold
MaxWindows == 1     \* window ends of one endpoint's counter
MaxHeld == 7        \* old serials the account holds when the list is mounted
MaxLoads == 4       \* calls of loadNFTs
MaxRuns == 2        \* swaps started from the NFT list
MaxN == 21          \* longest serial list handed to the client orchestrator

\* ------------------------------------------------------- program constants
BATCH_SIZE == 10    \* swapTransaction.ts:297
MAX_REQUESTS_PER_WINDOW == 80   \* mirrorNodeService.ts:14
DefaultMaxRetries == 3          \* mirrorNodeService.ts:64
DefaultPageSize == 25           \* part_001:234
Undefined == 0      \* a field the request body does not carry (JS undefined)

Treasury == "treasury"
Blackhole == "blackhole"
Users == {"u1"}
NoUser == ""        \* userAccountId absent (falsy)

Max(a, b) == IF a >= b THEN a ELSE b
AllSerials == 1..Max(MaxSerial, MaxN)
DirectSerials == 1..MaxSerial
CallIds == 1..MaxCalls
DirectTxIds == {1}   \* the transaction identifier direct callers name

SeqsUpTo(S, n) == UNION { [1..k -> S] : k \in 0..n }
Range(f) == { f[i] : i \in DOMAIN f }

VARIABLES
    oldOwner,    \* ledger: owner of each old-collection serial
    burnedBy,    \* ledger record: the account an old serial was moved to the blackhole from
    newOwner,    \* ledger: owner of each new-collection serial
    assocd,      \* ledger: accounts associated with the new token
    calls,       \* handler invocations (one record per invocation)
    faults,      \* handler-side faults so far (failed queries, transient ledger failures)
    cl,          \* the client orchestrator (one swapSingleNFT / swapMultipleNFTs run)
    ui,          \* the NFT list component (its React state)
    mirror,      \* the mirror client's module state (rotation index, request counters)
    fetches      \* the calls of fetchFromMirrorNode (one record per call)

vars == <<oldOwner, burnedBy, newOwner, assocd, calls, faults, cl, ui, mirror, fetches>>
ledgerVars == <<oldOwner, burnedBy, newOwner, assocd>>
mirrorVars == <<mirror, fetches>>

\* ------------------------------------------------------------- the handler
NoResp == [status |-> 0, success |-> FALSE, serialNumbers |-> <<>>,
           missingSerials |-> <<>>, hasMissing |-> FALSE, error |-> ""]

NoReq == [oldNftTransactionId |-> Undefined, userAccountId |-> NoUser,
          serialNumber |-> Undefined, serialNumbers |-> <<>>,
          hasSerialNumbers |-> FALSE, isBatch |-> FALSE]

\* One invocation of the handler: its locals, plus a log of what it saw
\* (queried: the outcome of each ownership query; ownedAtStart: the requested
\* serials the treasury held when the request arrived; overlaps: the invocations
\* in progress when it arrived).
IdleCall == [pc |-> "idle", req |-> NoReq, serials |-> <<>>, idx |-> 1,
             availableSerials |-> <<>>, missingSerials |-> <<>>,
             transfer |-> <<>>, receipt |-> "none", resp |-> NoResp,
             queried |-> <<>>, ownedAtStart |-> {}, overlaps |-> {}]

\* part_002:174  isMultiple = isBatch && serialNumbers && Array.isArray(serialNumbers)
IsMultiple(req) == req.isBatch /\ req.hasSerialNumbers

\* part_002:175  serials = isMultiple ? serialNumbers : [serialNumber]
SerialsOf(req) == IF IsMultiple(req) THEN req.serialNumbers ELSE <<req.serialNumber>>

\* part_002:177  !oldNftTransactionId || !userAccountId || serials.length === 0
MissingFields(req) ==
    \/ req.oldNftTransactionId = Undefined
    \/ req.userAccountId = NoUser
    \/ Len(SerialsOf(req)) = 0

ErrMissing == "Missing required fields: oldNftTransactionId, userAccountId, and serialNumber(s)"
ErrAllSwapped == "All requested NFTs have already been swapped"
ErrTransfer == "New NFT transfer failed"

Resp400Missing == [NoResp EXCEPT !.status = 400, !.error = ErrMissing]

\* part_002:247-252
Resp400AllSwapped(missing) ==
    [NoResp EXCEPT !.status = 400, !.error = ErrAllSwapped,
                   !.missingSerials = missing, !.hasMissing = TRUE]

\* Mutant of Resp200: the two lists end up in each other's field.
Resp200Swapped(available, missing) ==
    [NoResp EXCEPT !.status = 200, !.success = TRUE,
                   !.serialNumbers = missing,
                   !.missingSerials = available,
                   !.hasMissing = Len(available) > 0]

\* part_002:295-303
Resp200(available, missing) ==
    [NoResp EXCEPT !.status = 200, !.success = TRUE,
                   !.serialNumbers = available,
                   !.missingSerials = IF Len(missing) > 0 THEN missing ELSE <<>>,
                   !.hasMissing = Len(missing) > 0]

\* part_002:305-310
Resp500 == [NoResp EXCEPT !.status = 500, !.error = ErrTransfer]

\* The treasury is the owner of new serial s (what the ownership query of
\* part_002:219-225 reports when it succeeds, and what the ledger enforces).
TreasuryOwns(s) == s \in AllSerials /\ newOwner[s] = Treasury

InProgress == { d \in CallIds : calls[d].pc \notin {"idle", "done"} }

\* part_002:166-215: the request is parsed and validated; a request that lacks a
\* field is answered 400, any other starts the ownership loop.
Receive(c, req) ==
    /\ calls[c].pc = "idle"
    /\ calls' = [calls EXCEPT ![c] =
          IF MissingFields(req)
          THEN [IdleCall EXCEPT !.pc = "done", !.req = req,
                                !.serials = SerialsOf(req), !.resp = Resp400Missing]
          ELSE [IdleCall EXCEPT !.pc = "check", !.req = req,
                                !.serials = SerialsOf(req),
                                !.ownedAtStart =
                                    { s \in Range(SerialsOf(req)) : TreasuryOwns(s) },
                                !.overlaps = InProgress]]

\* part_002:216-239: one iteration of the ownership loop.
\* outcome "owned": response.ok and data.nfts non-empty;
\* "notowned": response.ok and no nfts; "failed": non-OK response or fetch throws
\* (at most MaxFaults times, and on the queries for serials up to MaxSerial).
QueryOutcomes(s) ==
    (IF TreasuryOwns(s) THEN {"owned"} ELSE {"notowned"})
      \cup (IF faults < MaxFaults /\ s <= MaxSerial THEN {"failed"} ELSE {})

\* Mutant of CheckOwnership: a serial whose query did not report it owned is
\* pushed to neither list unless the query failed.
CheckOwnershipDropsMissing(c) ==
    /\ calls[c].pc = "check"
    /\ calls[c].idx <= Len(calls[c].serials)
    /\ LET s == calls[c].serials[calls[c].idx] IN
       \E o \in QueryOutcomes(s) :
          /\ calls' = [calls EXCEPT
                ![c].idx = @ + 1,
                ![c].availableSerials = IF o = "owned" THEN Append(@, s) ELSE @,
                ![c].missingSerials = IF o = "failed" THEN Append(@, s) ELSE @,
                ![c].queried = Append(@, o)]
          /\ faults' = IF o = "failed" THEN faults + 1 ELSE faults
    /\ UNCHANGED <<ledgerVars, cl, ui, mirrorVars>>

CheckOwnership(c) ==
    /\ calls[c].pc = "check"
    /\ calls[c].idx <= Len(calls[c].serials)
    /\ LET s == calls[c].serials[calls[c].idx] IN
       \E o \in QueryOutcomes(s) :
          /\ calls' = [calls EXCEPT
                ![c].idx = @ + 1,
                ![c].availableSerials = IF o = "owned" THEN Append(@, s) ELSE @,
                ![c].missingSerials = IF o = "owned" THEN @ ELSE Append(@, s),
                ![c].queried = Append(@, o)]
          /\ faults' = IF o = "failed" THEN faults + 1 ELSE faults
    /\ UNCHANGED <<ledgerVars, cl, ui, mirrorVars>>

\* Mutant of Decide: the transfer is built from every requested serial, not
\* only the available ones.
DecideAllSerials(c) ==
    /\ calls[c].pc = "check"
    /\ calls[c].idx > Len(calls[c].serials)
    /\ calls' = [calls EXCEPT ![c] =
          IF Len(calls[c].availableSerials) = 0
          THEN [@ EXCEPT !.pc = "done",
                         !.resp = Resp400AllSwapped(calls[c].missingSerials)]
          ELSE [@ EXCEPT !.pc = "execute",
                         !.transfer = calls[c].serials]]
    /\ UNCHANGED <<ledgerVars, faults, cl, ui, mirrorVars>>

\* Mutant of Decide: the empty-availability check is missing.
DecideNoEmptyCheck(c) ==
    /\ calls[c].pc = "check"
    /\ calls[c].idx > Len(calls[c].serials)
    /\ calls' = [calls EXCEPT ![c] =
          [@ EXCEPT !.pc = "execute", !.transfer = calls[c].availableSerials]]
    /\ UNCHANGED <<ledgerVars, faults, cl, ui, mirrorVars>>

\* part_002:241-268: after the loop, nothing available is answered 400;
\* otherwise the transfer is built, one addNftTransfer per available serial.
Decide(c) ==
    /\ calls[c].pc = "check"
    /\ calls[c].idx > Len(calls[c].serials)
    /\ calls' = [calls EXCEPT ![c] =
          IF Len(calls[c].availableSerials) = 0
          THEN [@ EXCEPT !.pc = "done",
                         !.resp = Resp400AllSwapped(calls[c].missingSerials)]
          ELSE [@ EXCEPT !.pc = "execute",
                         !.transfer = calls[c].availableSerials]]
    /\ UNCHANGED <<ledgerVars, faults, cl, ui, mirrorVars>>

\* The ledger applies a transfer of new serials from the treasury atomically:
\* all entries or none.
LedgerAccepts(serials, user) ==
    /\ \A i \in DOMAIN serials : TreasuryOwns(serials[i])
    /\ user \in assocd

\* part_002:278-283  execute / getReceipt: the ledger settles a transfer it
\* accepts ("Success") unless the submission fails for a transient reason
\* ("Busy"), and rejects the others ("Rejected").
ReceiptStatuses(serials, user) ==
    IF LedgerAccepts(serials, user)
    THEN {"Success"} \cup (IF faults < MaxFaults THEN {"Busy"} ELSE {})
    ELSE {"Rejected"}

\* Mutant of Execute: the receipt status is not checked before answering 200.
ExecuteIgnoresReceipt(c) ==
    /\ calls[c].pc = "execute"
    /\ \E status \in ReceiptStatuses(calls[c].transfer, calls[c].req.userAccountId) :
          /\ newOwner' = IF status = "Success"
                         THEN [s \in AllSerials |->
                                 IF s \in Range(calls[c].transfer)
                                 THEN calls[c].req.userAccountId ELSE newOwner[s]]
                         ELSE newOwner
          /\ calls' = [calls EXCEPT
                ![c].pc = "done",
                ![c].receipt = status,
                ![c].resp = Resp200(calls[c].availableSerials, calls[c].missingSerials)]
          /\ faults' = IF status = "Busy" THEN faults + 1 ELSE faults
    /\ UNCHANGED <<oldOwner, burnedBy, assocd, cl, ui, mirrorVars>>

\* part_002:270-310: the transfer is executed and its receipt awaited; Success is
\* answered 200, anything else 500.
Execute(c) ==
    /\ calls[c].pc = "execute"
    /\ \E status \in ReceiptStatuses(calls[c].transfer, calls[c].req.userAccountId) :
          /\ newOwner' = IF status = "Success"
                         THEN [s \in AllSerials |->
                                 IF s \in Range(calls[c].transfer)
                                 THEN calls[c].req.userAccountId ELSE newOwner[s]]
                         ELSE newOwner
          /\ calls' = [calls EXCEPT
                ![c].pc = "done",
                ![c].receipt = status,
                ![c].resp = IF status = "Success"
                            THEN Resp200(calls[c].availableSerials, calls[c].missingSerials)
                            ELSE Resp500]
          /\ faults' = IF status = "Busy" THEN faults + 1 ELSE faults
    /\ UNCHANGED <<oldOwner, burnedBy, assocd, cl, ui, mirrorVars>>

\* ---------------------------------------------------------- direct callers
\* Anyone can POST to /api/swap: the body is whatever the caller sends.
\* The arrays sent: every list of distinct serials up to MaxLen long (the empty
\* one included), and one that names a serial twice.
DirectLists ==
    { l \in SeqsUpTo(DirectSerials, MaxLen) : Cardinality(Range(l)) = Len(l) }
        \cup {<<1, 1>>}

\* The serial part of a body: a single serialNumber (or none), a batch without
\* serialNumbers, or a batch with an array (possibly empty).
SerialParts ==
    { [serialNumber |-> sn, serialNumbers |-> <<>>,
       hasSerialNumbers |-> FALSE, isBatch |-> FALSE] :
         sn \in {Undefined} \cup DirectSerials }
    \cup
    { [serialNumber |-> Undefined, serialNumbers |-> <<>>,
       hasSerialNumbers |-> FALSE, isBatch |-> TRUE] }
    \cup
    { [serialNumber |-> Undefined, serialNumbers |-> l,
       hasSerialNumbers |-> TRUE, isBatch |-> TRUE] :
         l \in DirectLists }

Body(t, u, part) ==
    [oldNftTransactionId |-> t, userAccountId |-> u,
     serialNumber |-> part.serialNumber, serialNumbers |-> part.serialNumbers,
     hasSerialNumbers |-> part.hasSerialNumbers, isBatch |-> part.isBatch]

\* Bodies that name a transaction and an account, with every serial part; and
\* bodies that lack the transaction id or the account, for one serial.
DirectRequests ==
    { Body(t, u, part) : t \in DirectTxIds, u \in Users, part \in SerialParts }
    \cup
    { Body(t, u, [serialNumber |-> 1, serialNumbers |-> <<>>,
                  hasSerialNumbers |-> FALSE, isBatch |-> FALSE]) :
         t \in DirectTxIds \cup {Undefined}, u \in Users \cup {NoUser} }

DirectPost(c) ==
    /\ \A d \in CallIds : d < c => calls[d].pc # "idle"
    /\ \E req \in DirectRequests : Receive(c, req)
    /\ UNCHANGED <<ledgerVars, faults, cl, ui, mirrorVars>>

\* -------------------------------------------------- the client orchestrator
ClientUser == "u1"
ClientCall == 1     \* the handler invocation that serves the client's POST

ErrNoWallet == "Wallet not connected"
ErrNoSigner == "No signer available"
ErrNotAssociated == "TOKEN_NOT_ASSOCIATED"
ErrRejected == "User rejected the request"
ErrReceipt == "Transaction failed with status"
ErrNetwork == "Failed to fetch"
ErrBackendSingle == "Backend swap failed"
ErrBackendBatch == "Backend batch swap failed"

NoBatchResult == [success |-> FALSE, transactionId |-> Undefined, error |-> "",
                  serialNumbers |-> <<>>]

IdleClient == [pc |-> "idle", op |-> "none", serialNumbers |-> <<>>,
               skipAssociationCheck |-> FALSE, batchIndex |-> 0, batch |-> <<>>,
               signCalls |-> 0, entries |-> 0, posts |-> 0,
               assocQuery |-> "none", assocNodes |-> <<>>,
               receipt |-> "none", txid |-> Undefined,
               response |-> NoResp,
               batchResult |-> NoBatchResult,
               results |-> <<>>, progress |-> <<>>, delays |-> 0,
               attempted |-> <<>>, returned |-> <<>>,
               signed |-> <<>>, posted |-> <<>>]

Min(a, b) == IF a <= b THEN a ELSE b

\* swapTransaction.ts:302-304  for (i = 0; i < length; i += BATCH_SIZE)
\*                                batches.push(serialNumbers.slice(i, i + BATCH_SIZE))
RECURSIVE SliceFrom(_, _)
SliceFrom(list, i) ==
    IF i < Len(list)
    THEN <<SubSeq(list, i + 1, Min(i + BATCH_SIZE, Len(list)))>>
         \o SliceFrom(list, i + BATCH_SIZE)
    ELSE <<>>
Batches(list) == SliceFrom(list, 0)
NumBatches(list) == Len(Batches(list))      \* batches.length
BatchAt(list, k) == Batches(list)[k]        \* batches[batchIndex]

Ascending(n) == [i \in 1..n |-> i]
Descending(n) == [i \in 1..n |-> n + 1 - i]
ClientLists == { Ascending(n) : n \in 0..MaxN } \cup { Descending(n) : n \in 1..MaxN }

\* Mutant of Fail: the error is not caught and leaves the function.
FailThrows(e) == [cl EXCEPT !.pc = "thrown"]

\* swapTransaction.ts:167-173, 274-282  the catch block of swapSingleNFT /
\* swapBatchNFTs: whatever was thrown in the try block is returned as a result
\* with success false, the message and the serial(s) of the call.
Fail(e) == [cl EXCEPT !.pc = "return",
                      !.batchResult = [NoBatchResult EXCEPT
                                          !.error = e,
                                          !.serialNumbers = cl.batch]]

\* part_001:311  swapSingleNFT(accountId, serialNumber [, skipAssociationCheck])
StartSingle ==
    /\ cl.pc = "idle"
    /\ \E s \in DirectSerials, skip \in BOOLEAN :
          cl' = [IdleClient EXCEPT !.pc = "connect", !.op = "single",
                                   !.serialNumbers = <<s>>, !.batch = <<s>>,
                                   !.skipAssociationCheck = skip,
                                   !.batchIndex = 1,
                                   !.attempted = <<<<s>>>>]
    /\ UNCHANGED <<ledgerVars, calls, faults, ui, mirrorVars>>

\* swapTransaction.ts:290-314  swapMultipleNFTs splits the list and calls
\* swapBatchNFTs on the first batch; an empty list returns no results.
StartMultiple ==
    /\ cl.pc = "idle"
    /\ \E list \in ClientLists :
          cl' = IF NumBatches(list) = 0
                THEN [IdleClient EXCEPT !.pc = "done", !.op = "multiple"]
                ELSE [IdleClient EXCEPT !.pc = "connect", !.op = "multiple",
                                        !.serialNumbers = list,
                                        !.batch = BatchAt(list, 1),
                                        !.batchIndex = 1,
                                        !.attempted = <<BatchAt(list, 1)>>]
    /\ UNCHANGED <<ledgerVars, calls, faults, ui, mirrorVars>>

\* Mutant of RequestSignature: one transaction, and one signature, per serial.
RequestSignaturePerSerial(c) ==
    [c EXCEPT !.pc = "sign", !.signCalls = @ + Len(c.batch), !.entries = 1,
              !.signed = @ \o [i \in 1..Len(c.batch) |-> <<c.batch[i]>>]]

\* swapTransaction.ts:109-124 / 207-230: the transfer old serial(s) -> blackhole is
\* built, one addNftTransfer per serial, and handed to the wallet once.
RequestSignature(c) ==
    [c EXCEPT !.pc = "sign", !.signCalls = @ + 1, !.entries = Len(c.batch),
              !.signed = Append(@, c.batch)]

\* Mutant of Connect: the association query is made before the connector and
\* the signer are looked up.
ConnectAfterAssociationQuery ==
    /\ cl.pc = "connect"
    /\ \E wallet \in {"ok", "noConnector", "noSigner"},
          q \in {"throws", "nonOK", "listed", "empty"} :
          cl' = CASE wallet = "noConnector" ->
                       [Fail(ErrNoWallet) EXCEPT !.assocQuery = q]
                  [] wallet = "noSigner" ->
                       [Fail(ErrNoSigner) EXCEPT !.assocQuery = q]
                  [] OTHER -> IF cl.op = "single" /\ cl.skipAssociationCheck
                              THEN RequestSignature(cl)
                              ELSE [cl EXCEPT !.pc = "assoc"]
    /\ UNCHANGED <<ledgerVars, calls, faults, ui, mirrorVars>>

\* swapTransaction.ts:85-99 / 187-200: connector and signer are resolved, then the
\* association query is sent (or skipped by swapSingleNFT).
Connect ==
    /\ cl.pc = "connect"
    /\ \E wallet \in {"ok", "noConnector", "noSigner"} :
          cl' = CASE wallet = "noConnector" -> Fail(ErrNoWallet)
                  [] wallet = "noSigner" -> Fail(ErrNoSigner)
                  [] OTHER -> IF cl.op = "single" /\ cl.skipAssociationCheck
                              THEN RequestSignature(cl)
                              ELSE [cl EXCEPT !.pc = "assoc"]
    /\ UNCHANGED <<ledgerVars, calls, faults, ui, mirrorVars>>

\* swapTransaction.ts:29-31  what the fetch of /accounts/{id}/tokens?token.id=
\* can do: throw, answer non-OK, or answer OK with the account's links to the
\* token (one link if the account is associated, none if it is not).
AssocQueryOutcomes(user) ==
    {"throws", "nonOK"} \cup (IF user \in assocd THEN {"listed"} ELSE {"empty"})

\* swapTransaction.ts:29-31  the one endpoint isTokenAssociated fetches from,
\* written out in the URL; the function sends one request and does not go
\* through fetchFromMirrorNode.
AssociationEndpoint == "mainnet-public"

\* Mutant of IsTokenAssociated: a query that failed counts as associated.
IsTokenAssociatedFailOpen(outcome) == outcome # "empty"

\* swapTransaction.ts:27-44  isTokenAssociated: a non-OK response is false (33-36),
\* an OK one is data.tokens.length > 0 (39), a throw is false (40-43).
IsTokenAssociated(outcome) ==
    CASE outcome = "throws" -> FALSE
      [] outcome = "nonOK" -> FALSE
      [] outcome = "empty" -> FALSE
      [] outcome = "listed" -> TRUE

IsTokenAssociatedResults(user) ==
    { IsTokenAssociated(q) : q \in AssocQueryOutcomes(user) }

\* Mutant of AssocResult: the association is queried once per serial of the
\* batch.
AssocResultPerSerial ==
    /\ cl.pc = "assoc"
    /\ \E q \in AssocQueryOutcomes(ClientUser) :
          cl' = IF ~IsTokenAssociated(q)
                THEN [Fail(ErrNotAssociated) EXCEPT
                        !.assocQuery = q,
                        !.assocNodes = [i \in 1..Len(cl.batch) |-> AssociationEndpoint]]
                ELSE [RequestSignature(cl) EXCEPT
                        !.assocQuery = q,
                        !.assocNodes = [i \in 1..Len(cl.batch) |-> AssociationEndpoint]]
    /\ UNCHANGED <<ledgerVars, calls, faults, ui, mirrorVars>>

\* swapTransaction.ts:99-124 / 200-230
AssocResult ==
    /\ cl.pc = "assoc"
    /\ \E q \in AssocQueryOutcomes(ClientUser) :
          cl' = IF ~IsTokenAssociated(q)
                THEN [Fail(ErrNotAssociated) EXCEPT
                        !.assocQuery = q, !.assocNodes = <<AssociationEndpoint>>]
                ELSE [RequestSignature(cl) EXCEPT
                        !.assocQuery = q, !.assocNodes = <<AssociationEndpoint>>]
    /\ UNCHANGED <<ledgerVars, calls, faults, ui, mirrorVars>>

\* The ledger applies the user's transfer atomically: every serial of the batch
\* must be held by the user.
UserOwnsAll(user, serials) == \A i \in DOMAIN serials : oldOwner[serials[i]] = user

\* swapTransaction.ts:124-129 / 230-235  executeWithSigner: the wallet rejects
\* (throws) or signs and submits; the ledger then settles the transfer.
SignResult ==
    /\ cl.pc = "sign"
    /\ \/ /\ cl' = Fail(ErrRejected)
          /\ UNCHANGED <<oldOwner, burnedBy>>
       \/ \E status \in (IF UserOwnsAll(ClientUser, cl.batch)
                         THEN {"SUCCESS", "FAIL"} ELSE {"FAIL"}) :
             /\ cl' = [cl EXCEPT !.pc = "receipt", !.receipt = status,
                                 !.txid = cl.batchIndex]
             /\ oldOwner' = IF status = "SUCCESS"
                            THEN [s \in AllSerials |->
                                    IF s \in Range(cl.batch) THEN Blackhole
                                    ELSE oldOwner[s]]
                            ELSE oldOwner
             /\ burnedBy' = IF status = "SUCCESS"
                            THEN [s \in AllSerials |->
                                    IF s \in Range(cl.batch) THEN ClientUser
                                    ELSE burnedBy[s]]
                            ELSE burnedBy
    /\ UNCHANGED <<newOwner, assocd, calls, faults, ui, mirrorVars>>

\* swapTransaction.ts:146-150 / 252-257  the body of the POST
ClientRequest(c) ==
    IF c.op = "single"
    THEN [oldNftTransactionId |-> c.txid, userAccountId |-> ClientUser,
          serialNumber |-> c.batch[1], serialNumbers |-> <<>>,
          hasSerialNumbers |-> FALSE, isBatch |-> FALSE]
    ELSE [oldNftTransactionId |-> c.txid, userAccountId |-> ClientUser,
          serialNumber |-> Undefined, serialNumbers |-> c.batch,
          hasSerialNumbers |-> TRUE, isBatch |-> TRUE]

\* Mutant of Receipt: the status of the receipt is not checked before the POST.
ReceiptIgnoresStatus ==
    /\ cl.pc = "receipt"
    /\ cl' = [cl EXCEPT !.pc = "backend", !.posts = @ + 1,
                        !.posted = Append(@, cl.batch)]
    /\ Receive(ClientCall, ClientRequest(cl))
    /\ UNCHANGED <<ledgerVars, faults, ui, mirrorVars>>

\* Mutant of Receipt: a receipt that is not SUCCESS is answered by signing and
\* submitting the transfer once more.
ReceiptRetries ==
    /\ cl.pc = "receipt"
    /\ IF cl.receipt # "SUCCESS"
       THEN /\ cl' = IF cl.signCalls < 2 THEN RequestSignature(cl)
                     ELSE Fail(ErrReceipt)
            /\ UNCHANGED calls
       ELSE \E delivered \in BOOLEAN :
               IF delivered
               THEN /\ cl' = [cl EXCEPT !.pc = "backend", !.posts = @ + 1,
                                        !.posted = Append(@, cl.batch)]
                    /\ Receive(ClientCall, ClientRequest(cl))
               ELSE /\ cl' = [Fail(ErrNetwork) EXCEPT !.posts = @ + 1,
                                        !.posted = Append(@, cl.batch)]
                    /\ UNCHANGED calls
    /\ UNCHANGED <<ledgerVars, faults, ui, mirrorVars>>

\* Mutant of Receipt: the POST is sent and its response is not awaited.
ReceiptNoAwait ==
    /\ cl.pc = "receipt"
    /\ IF cl.receipt # "SUCCESS"
       THEN /\ cl' = Fail(ErrReceipt)
            /\ UNCHANGED calls
       ELSE /\ cl' = [cl EXCEPT !.pc = "return", !.posts = @ + 1,
                                !.posted = Append(@, cl.batch),
                                !.batchResult = [success |-> TRUE,
                                                 transactionId |-> cl.txid,
                                                 error |-> "",
                                                 serialNumbers |-> cl.batch]]
            /\ Receive(ClientCall, ClientRequest(cl))
    /\ UNCHANGED <<ledgerVars, faults, ui, mirrorVars>>

\* swapTransaction.ts:129-151 / 235-258: the receipt is read; any status but
\* SUCCESS throws, SUCCESS is followed by the POST to /api/swap.
Receipt ==
    /\ cl.pc = "receipt"
    /\ IF cl.receipt # "SUCCESS"
       THEN /\ cl' = Fail(ErrReceipt)
            /\ UNCHANGED calls
       ELSE \E delivered \in BOOLEAN :
               IF delivered
               THEN /\ cl' = [cl EXCEPT !.pc = "backend", !.posts = @ + 1,
                                        !.posted = Append(@, cl.batch)]
                    /\ Receive(ClientCall, ClientRequest(cl))
               ELSE /\ cl' = [Fail(ErrNetwork) EXCEPT !.posts = @ + 1,
                                        !.posted = Append(@, cl.batch)]
                    /\ UNCHANGED calls
    /\ UNCHANGED <<ledgerVars, faults, ui, mirrorVars>>

\* The bodies the client can read for the handler's response r: the handler's
\* own, or for a non-OK answer one whose error field is empty or absent.
ReceivedResponses(r) ==
    {r} \cup (IF r.status # 200 THEN {[r EXCEPT !.error = ""]} ELSE {})

\* Mutant of BackendError: the fixed text, whatever the server said.
BackendErrorFixed(op, r) ==
    IF op = "single" THEN ErrBackendSingle ELSE ErrBackendBatch

\* swapTransaction.ts:155 / 262  errorData.error || 'Backend [batch ]swap failed'
BackendError(op, r) ==
    IF r.error # "" THEN r.error
    ELSE IF op = "single" THEN ErrBackendSingle ELSE ErrBackendBatch

\* swapTransaction.ts:153-165 / 260-273: the response of the handler; a non-OK
\* response throws its error, an OK one is the success result.
BackendResponse ==
    /\ cl.pc = "backend"
    /\ calls[ClientCall].pc = "done"
    /\ \E lost \in BOOLEAN, r \in ReceivedResponses(calls[ClientCall].resp) :
          cl' = IF lost THEN Fail(ErrNetwork)
                ELSE IF r.status # 200
                THEN [Fail(BackendError(cl.op, r)) EXCEPT !.response = r]
                ELSE [cl EXCEPT !.pc = "return",
                                !.response = r,
                                !.batchResult = [success |-> TRUE,
                                                 transactionId |-> cl.txid,
                                                 error |-> "",
                                                 serialNumbers |-> cl.batch]]
    /\ calls' = [calls EXCEPT ![ClientCall] = IdleCall]
    /\ UNCHANGED <<ledgerVars, faults, ui, mirrorVars>>

\* Mutant of BatchResults: a failed batch is recorded once, not once per serial.
BatchResultsOncePerFailure(c) ==
    [i \in 1..(IF c.batchResult.success THEN Len(c.batch) ELSE 1) |->
        [success |-> c.batchResult.success,
         transactionId |-> c.batchResult.transactionId,
         error |-> c.batchResult.error,
         serialNumber |-> c.batch[i]]]

\* swapTransaction.ts:316-344: one SwapResult per serial of the batch
BatchResults(c) ==
    [i \in 1..Len(c.batch) |->
        [success |-> c.batchResult.success,
         transactionId |-> c.batchResult.transactionId,
         error |-> c.batchResult.error,
         serialNumber |-> c.batch[i]]]

\* Mutant of BatchProgress: one invocation per batch, with the count after the
\* batch and its last serial.
BatchProgressOncePerBatch(c) ==
    << <<Len(c.results) + Len(c.batch), Len(c.serialNumbers),
         c.batch[Len(c.batch)]>> >>

\* swapTransaction.ts:327 / 341  onProgress(results.length, serialNumbers.length, serialNumber)
BatchProgress(c) ==
    [i \in 1..Len(c.batch) |->
        <<Len(c.results) + i, Len(c.serialNumbers), c.batch[i]>>]

\* Mutant of Return: a failed batch ends the run of swapMultipleNFTs.
ReturnAbortsOnFailure ==
    /\ cl.pc = "return"
    /\ cl' = IF cl.op = "single"
             THEN [cl EXCEPT !.pc = "done", !.results = BatchResults(cl),
                             !.returned = <<cl.batchResult>>]
             ELSE [cl EXCEPT
                     !.pc = IF cl.batchIndex < NumBatches(cl.serialNumbers)
                               /\ cl.batchResult.success
                            THEN "pace" ELSE "done",
                     !.returned = Append(@, cl.batchResult),
                     !.results = @ \o BatchResults(cl),
                     !.progress = @ \o BatchProgress(cl)]
    /\ UNCHANGED <<ledgerVars, calls, faults, ui, mirrorVars>>

\* swapTransaction.ts:161-173 (swapSingleNFT returns its result) and
\* swapTransaction.ts:314-350 (swapMultipleNFTs records the batch, then paces).
Return ==
    /\ cl.pc = "return"
    /\ cl' = IF cl.op = "single"
             THEN [cl EXCEPT !.pc = "done", !.results = BatchResults(cl),
                             !.returned = <<cl.batchResult>>]
             ELSE [cl EXCEPT
                     !.pc = IF cl.batchIndex < NumBatches(cl.serialNumbers)
                            THEN "pace" ELSE "done",
                     !.returned = Append(@, cl.batchResult),
                     !.results = @ \o BatchResults(cl),
                     !.progress = @ \o BatchProgress(cl)]
    /\ UNCHANGED <<ledgerVars, calls, faults, ui, mirrorVars>>

\* Mutant of Pace: the delay is waited only after a batch that succeeded.
PaceAfterSuccessOnly ==
    /\ cl.pc = "pace"
    /\ cl' = [cl EXCEPT !.pc = "connect",
                        !.delays = IF cl.batchResult.success THEN @ + 1 ELSE @,
                        !.batchIndex = @ + 1,
                        !.batch = BatchAt(cl.serialNumbers, cl.batchIndex + 1),
                        !.attempted = Append(@, BatchAt(cl.serialNumbers,
                                                        cl.batchIndex + 1)),
                        !.signCalls = 0, !.entries = 0, !.posts = 0,
                        !.assocQuery = "none", !.assocNodes = <<>>,
                        !.response = NoResp,
                        !.receipt = "none", !.txid = Undefined,
                        !.batchResult = NoBatchResult]
    /\ UNCHANGED <<ledgerVars, calls, faults, ui, mirrorVars>>

\* swapTransaction.ts:346-349, 309-314: the 2 s delay ends, the next batch starts.
Pace ==
    /\ cl.pc = "pace"
    /\ cl' = [cl EXCEPT !.pc = "connect",
                        !.delays = @ + 1,
                        !.batchIndex = @ + 1,
                        !.batch = BatchAt(cl.serialNumbers, cl.batchIndex + 1),
                        !.attempted = Append(@, BatchAt(cl.serialNumbers,
                                                        cl.batchIndex + 1)),
                        !.signCalls = 0, !.entries = 0, !.posts = 0,
                        !.assocQuery = "none", !.assocNodes = <<>>,
                        !.response = NoResp,
                        !.receipt = "none", !.txid = Undefined,
                        !.batchResult = NoBatchResult]
    /\ UNCHANGED <<ledgerVars, calls, faults, ui, mirrorVars>>

\* ------------------------------------------------------ the NFT list (UI)
\* part_001:226-251  the React state of NFTList. pendingSwapSerial = Undefined
\* stands for null; resultMessage.title = "" stands for a null resultMessage;
\* running names the executeSwap / executeMassSwap call that awaits the client
\* run `cl`; others holds the serials of the executeSwap calls started while that
\* call was still running. A next link is the address of the page after a
\* serial, with the limit of the request that returned it; NoLink stands for
\* undefined. loads holds
\* the calls of fetchAccountNFTs that have not settled, loadsStarted counts the
\* calls of loadNFTs, executing holds the calls of executeSwap started from
\* the paged list, each with the page size of the render it was started from.
NoLink == [after |-> 0, limit |-> 0]
NoResultMessage == [title |-> "", serial |-> Undefined, error |-> "",
                    successful |-> 0, failed |-> 0, isSuccess |-> FALSE]

TitleSwapOk == "Swap Successful!"
TitleSwapFailed == "Swap Failed"
TitleMassOk == "Mass Swap Successful!"
TitleMassPartial == "Mass Swap Partially Complete"

IdleUI == [loaded |-> FALSE, nfts |-> <<>>, error |-> "",
           swapping |-> {}, massSwapping |-> FALSE,
           showAssociationModal |-> FALSE, showSwapConfirmModal |-> FALSE,
           pendingSwapSerial |-> Undefined, pendingMassSwap |-> FALSE,
           showResultModal |-> FALSE, resultMessage |-> NoResultMessage,
           showProgressModal |-> FALSE,
           running |-> "none", others |-> {}, runs |-> 0,
           pageSize |-> DefaultPageSize, hasMore |-> FALSE, nextLink |-> NoLink,
           loading |-> FALSE, loadingMore |-> FALSE,
           loads |-> {}, loadsStarted |-> 0, executing |-> {}]

RECURSIVE AscendingSeq(_)
AscendingSeq(S) ==
    IF S = {} THEN <<>>
    ELSE LET m == CHOOSE x \in S : \A y \in S : x <= y
         IN <<m>> \o AscendingSeq(S \ {m})

\* part_001:269-281  fetchAccountNFTs: the old-collection serials the account
\* holds on the ledger `owner`, as one page.
HeldNFTs(owner) == AscendingSeq({ s \in AllSerials : owner[s] = ClientUser })

\* part_001:253-295  loadNFTs(true) on mount: the list is replaced by the page,
\* or the fetch throws and the error is shown.
LoadNFTs ==
    /\ ~ui.loaded
    /\ \E ok \in BOOLEAN :
          ui' = IF ok THEN [ui EXCEPT !.loaded = TRUE, !.nfts = HeldNFTs(oldOwner)]
                ELSE [ui EXCEPT !.loaded = TRUE,
                                !.error = "Failed to load your NFTs. Please try again."]
    /\ UNCHANGED <<ledgerVars, calls, faults, cl, mirrorVars>>

\* part_001:297-303, 559-565  the Swap button of a listed serial (disabled while
\* that serial is swapping or a mass swap runs).
HandleSwapSingle ==
    /\ ~ui.massSwapping
    /\ \E s \in (Range(ui.nfts) \cap DirectSerials) \ ui.swapping :
          ui' = [ui EXCEPT !.pendingSwapSerial = s, !.showSwapConfirmModal = TRUE]
    /\ UNCHANGED <<ledgerVars, calls, faults, cl, mirrorVars>>

\* Mutant of HandleSwapAll: the Swap All button is not disabled while single
\* swaps run.
HandleSwapAllWhileSwapping ==
    /\ Len(ui.nfts) > 1
    /\ ~ui.massSwapping
    /\ ui' = [ui EXCEPT !.pendingMassSwap = TRUE, !.showSwapConfirmModal = TRUE]
    /\ UNCHANGED <<ledgerVars, calls, faults, cl, mirrorVars>>

\* part_001:399-404, 582-593  the Swap All button (rendered for two or more NFTs,
\* disabled while any swap runs).
HandleSwapAll ==
    /\ Len(ui.nfts) > 1
    /\ ~ui.massSwapping /\ ui.swapping = {}
    /\ ui' = [ui EXCEPT !.pendingMassSwap = TRUE, !.showSwapConfirmModal = TRUE]
    /\ UNCHANGED <<ledgerVars, calls, faults, cl, mirrorVars>>

\* part_001:620-624  Cancel in the confirmation dialog
CancelSwapConfirm ==
    /\ ui.showSwapConfirmModal
    /\ ui' = [ui EXCEPT !.showSwapConfirmModal = FALSE,
                        !.pendingSwapSerial = Undefined,
                        !.pendingMassSwap = FALSE]
    /\ UNCHANGED <<ledgerVars, calls, faults, cl, mirrorVars>>

\* part_001:625-635  Continue in the confirmation dialog: the pending choice is
\* cleared, then executeMassSwap (406-425) or executeSwap (305-311) starts, sets
\* its in-flight marker and calls the client. Nothing in the dialog looks at the
\* markers. The first call in flight is followed through the client run `cl`;
\* an executeSwap started beside it is kept in `others`. MaxRuns calls in all.
ConfirmSwap ==
    /\ ui.showSwapConfirmModal
    /\ ui.runs < MaxRuns
    /\ IF ui.pendingMassSwap
       THEN /\ ui' = [ui EXCEPT !.showSwapConfirmModal = FALSE,
                                !.pendingMassSwap = FALSE,
                                !.massSwapping = TRUE,
                                !.showProgressModal = TRUE,
                                !.running = IF ui.running = "none"
                                            THEN "executeMassSwap" ELSE @,
                                !.runs = @ + 1]
            /\ cl' = IF ui.running = "none"
                     THEN [IdleClient EXCEPT !.pc = "connect", !.op = "multiple",
                                             !.serialNumbers = ui.nfts,
                                             !.batch = BatchAt(ui.nfts, 1),
                                             !.batchIndex = 1,
                                             !.attempted = <<BatchAt(ui.nfts, 1)>>]
                     ELSE cl
       ELSE /\ ui.pendingSwapSerial # Undefined
            /\ ui' = [ui EXCEPT !.showSwapConfirmModal = FALSE,
                                !.pendingSwapSerial = Undefined,
                                !.swapping = @ \cup {ui.pendingSwapSerial},
                                !.running = IF ui.running = "none"
                                            THEN "executeSwap" ELSE @,
                                !.others = IF ui.running = "none"
                                           THEN @ ELSE @ \cup {ui.pendingSwapSerial},
                                !.runs = @ + 1]
            /\ cl' = IF ui.running = "none"
                     THEN [IdleClient EXCEPT !.pc = "connect", !.op = "single",
                                             !.serialNumbers = <<ui.pendingSwapSerial>>,
                                             !.batch = <<ui.pendingSwapSerial>>,
                                             !.batchIndex = 1,
                                             !.attempted = <<<<ui.pendingSwapSerial>>>>]
                     ELSE cl
    /\ UNCHANGED <<ledgerVars, calls, faults, mirrorVars>>

\* part_001:311-312, 320-327, 347-354  an executeSwap started beside the call in
\* flight gets its result, the signing request declined in the wallet: the
\* result dialog shows the failure and the serial leaves `swapping`.
ExecuteSwapDeclined ==
    /\ \E s \in ui.others :
          ui' = [ui EXCEPT
                   !.others = @ \ {s},
                   !.swapping = @ \ {s},
                   !.showResultModal = TRUE,
                   !.resultMessage =
                       [NoResultMessage EXCEPT !.title = TitleSwapFailed,
                                               !.serial = s,
                                               !.error = ErrRejected]]
    /\ UNCHANGED <<ledgerVars, calls, faults, cl, mirrorVars>>

\* part_001:311-328, 347-354  swapSingleNFT has returned its result: the result
\* dialog shows success (and the list is reloaded) or the failure with
\* result.error; the serial leaves `swapping`. swapSingleNFT returns every failure
\* as a value (swapTransaction.ts:166-173), so the catch at 329-346 is not entered.
ExecuteSwapReturns ==
    /\ ui.running = "executeSwap"
    /\ cl.pc = "done"
    /\ LET result == cl.results[1] IN
       ui' = [ui EXCEPT
                !.running = "none",
                !.swapping = @ \ {result.serialNumber},
                !.showResultModal = TRUE,
                !.resultMessage =
                    [NoResultMessage EXCEPT
                        !.title = IF result.success THEN TitleSwapOk
                                  ELSE TitleSwapFailed,
                        !.serial = result.serialNumber,
                        !.error = result.error,
                        !.isSuccess = result.success],
                !.nfts = IF result.success THEN HeldNFTs(oldOwner) ELSE @]
    /\ UNCHANGED <<ledgerVars, calls, faults, cl, mirrorVars>>

\* part_001:425-449, 468-470  swapMultipleNFTs has returned its results: the
\* progress dialog closes, the result dialog shows the counts, the list is
\* reloaded and massSwapping is cleared. swapMultipleNFTs does not throw, so the
\* catch at 450-467 is not entered.
ExecuteMassSwapReturns ==
    /\ ui.running = "executeMassSwap"
    /\ cl.pc = "done"
    /\ LET successful == Cardinality({ i \in DOMAIN cl.results : cl.results[i].success })
           failed == Cardinality({ i \in DOMAIN cl.results : ~cl.results[i].success })
       IN ui' = [ui EXCEPT
                   !.running = "none",
                   !.massSwapping = FALSE,
                   !.showProgressModal = FALSE,
                   !.showResultModal = TRUE,
                   !.resultMessage =
                       [NoResultMessage EXCEPT
                           !.title = IF failed = 0 THEN TitleMassOk
                                     ELSE TitleMassPartial,
                           !.successful = successful,
                           !.failed = failed,
                           !.isSuccess = (failed = 0)],
                   !.nfts = HeldNFTs(oldOwner)]
    /\ UNCHANGED <<ledgerVars, calls, faults, cl, mirrorVars>>

\* part_001:385-387  the swap handleAssociateToken runs again after a successful
\* association: executeSwap(pendingSwapSerial), and none if it is null.
RetriedSerial == ui.pendingSwapSerial

\* part_001:677-687  OK in the result dialog
CloseResult ==
    /\ ui.showResultModal
    /\ ui' = [ui EXCEPT !.showResultModal = FALSE, !.resultMessage = NoResultMessage]
    /\ UNCHANGED <<ledgerVars, calls, faults, cl, mirrorVars>>

\* ------------------------------------------------- the NFT list: loading
\* part_001:516-519  the page sizes offered (of 5, 25, 50 and 100; the two
\* larger ones hold every list of the model in one page, as 25 does).
PageSizes == {5, DefaultPageSize}

\* The first n elements of a list.
Take(list, n) == SubSeq(list, 1, Min(n, Len(list)))

\* mirrorNodeService.ts:120-136  fetchNFTsWithPagination: the request is the
\* next link if there is one, otherwise the first page of the account with
\* the limit given. The mirror node answers with up to that many held serials
\* in serial order and, if held serials remain beyond them, with links.next,
\* the address of the page after the last of them with the same limit.
FetchNFTsWithPagination(owner, limit, nextLink) ==
    LET endpoint == IF nextLink # NoLink THEN nextLink
                    ELSE [after |-> 0, limit |-> limit]
        rest == AscendingSeq({ s \in AllSerials :
                                 owner[s] = ClientUser /\ s > endpoint.after })
        page == Take(rest, endpoint.limit)
    IN [nfts |-> page,
        links |-> [next |-> IF Len(rest) > endpoint.limit
                            THEN [after |-> page[Len(page)], limit |-> endpoint.limit]
                            ELSE NoLink]]

\* nftQuery.ts:31-108  fetchAccountNFTs: the page of fetchNFTsWithPagination,
\* hasMore = !!links.next and nextLink = links.next.
FetchAccountNFTs(owner, limit, nextLink) ==
    LET data == FetchNFTsWithPagination(owner, limit, nextLink)
    IN [nfts |-> data.nfts, hasMore |-> data.links.next # NoLink,
        nextLink |-> data.links.next]

\* part_001:253-273  loadNFTs(reset) up to its await: a reset load shows the
\* loading screen and empties the list and the next link, a load-more sets
\* loadingMore; the error is cleared and fetchAccountNFTs is called with the
\* page size of the render the caller belongs to and, for a load-more, the
\* stored next link.
BeginLoad(u, reset, size) ==
    [u EXCEPT !.loading = IF reset THEN TRUE ELSE @,
              !.nfts = IF reset THEN <<>> ELSE @,
              !.nextLink = IF reset THEN NoLink ELSE @,
              !.loadingMore = IF reset THEN @ ELSE TRUE,
              !.error = "",
              !.loads = @ \cup {[id |-> u.loadsStarted + 1,
                                 reset |-> reset, limit |-> size,
                                 nextLink |-> IF reset THEN NoLink ELSE u.nextLink]},
              !.loadsStarted = @ + 1]

\* part_001:476-500  the list, its page size selector and its buttons are
\* rendered when nothing is loading, no error is shown and the list is not empty.
ListShown == ~ui.loading /\ ui.error = "" /\ ui.nfts # <<>>

\* part_001:293-295  the effect that runs on mount: loadNFTs(true).
Mount ==
    /\ ~ui.loaded
    /\ ui' = BeginLoad([ui EXCEPT !.loaded = TRUE], TRUE, ui.pageSize)
    /\ UNCHANGED <<ledgerVars, calls, faults, cl, mirrorVars>>

\* part_001:512-515, 293-295  another page size is selected (the selector is
\* disabled while loading or loadingMore); the effect runs loadNFTs(true).
SetPageSize ==
    /\ ListShown /\ ~ui.loadingMore
    /\ ui.loadsStarted < MaxLoads
    /\ \E size \in PageSizes \ {ui.pageSize} :
          ui' = BeginLoad([ui EXCEPT !.pageSize = size], TRUE, size)
    /\ UNCHANGED <<ledgerVars, calls, faults, cl, mirrorVars>>

\* part_001:569-580  the Load More button (rendered if hasMore, disabled while
\* loadingMore): loadNFTs(false).
LoadMore ==
    /\ ListShown /\ ui.hasMore /\ ~ui.loadingMore
    /\ ui.loadsStarted < MaxLoads
    /\ ui' = BeginLoad(ui, FALSE, ui.pageSize)
    /\ UNCHANGED <<ledgerVars, calls, faults, cl, mirrorVars>>

\* part_001:559-566, 618-635, 305-311  the swap button of a listed serial
\* (disabled while that serial is swapping or a mass swap runs) and the
\* confirmation: executeSwap starts and marks the serial. Its loadNFTs is
\* the one of this render, with this render's page size.
ExecuteSwapBegins ==
    /\ ListShown /\ ~ui.massSwapping
    /\ ui.runs < MaxRuns
    /\ \E s \in Range(ui.nfts) \ ui.swapping :
          ui' = [ui EXCEPT !.swapping = @ \cup {s},
                           !.executing = @ \cup {[serial |-> s, pageSize |-> ui.pageSize]},
                           !.runs = @ + 1]
    /\ UNCHANGED <<ledgerVars, calls, faults, cl, mirrorVars>>

\* part_001:312-321, 351-355  swapSingleNFT has succeeded, the old token is in
\* the blackhole and the new one with the account: executeSwap shows the
\* result and calls loadNFTs(true). (The serial leaves swapping when that
\* load has settled; it is taken out here, the serial being gone from the
\* account.)
ExecuteSwapSucceeds ==
    /\ ui.loadsStarted < MaxLoads
    /\ \E e \in ui.executing :
          /\ oldOwner[e.serial] = ClientUser
          /\ oldOwner' = [oldOwner EXCEPT ![e.serial] = Blackhole]
          /\ burnedBy' = [burnedBy EXCEPT ![e.serial] = ClientUser]
          /\ newOwner' = [newOwner EXCEPT ![e.serial] = ClientUser]
          /\ ui' = BeginLoad([ui EXCEPT
                                !.executing = @ \ {e},
                                !.swapping = @ \ {e.serial},
                                !.showResultModal = TRUE,
                                !.resultMessage =
                                    [NoResultMessage EXCEPT !.title = TitleSwapOk,
                                                            !.serial = e.serial,
                                                            !.isSuccess = TRUE]],
                             TRUE, e.pageSize)
    /\ UNCHANGED <<assocd, calls, faults, cl, mirrorVars>>

\* part_001:322-356  swapSingleNFT has failed: the failure is shown and the
\* list is left alone.
ExecuteSwapFails ==
    /\ \E e \in ui.executing :
          ui' = [ui EXCEPT
                   !.executing = @ \ {e},
                   !.swapping = @ \ {e.serial},
                   !.showResultModal = TRUE,
                   !.resultMessage =
                       [NoResultMessage EXCEPT !.title = TitleSwapFailed,
                                               !.serial = e.serial,
                                               !.error = ErrRejected]]
    /\ UNCHANGED <<ledgerVars, calls, faults, cl, mirrorVars>>

\* part_001:268-291  a call of fetchAccountNFTs settles: its page replaces the
\* list (reset) or is appended to it (load-more), hasMore and nextLink are set
\* from it; or it throws and the error is shown. Either way loading and
\* loadingMore are cleared.
LoadSettles ==
    /\ \E load \in ui.loads, ok \in BOOLEAN :
          LET result == FetchAccountNFTs(oldOwner, load.limit, load.nextLink) IN
          ui' = IF ok
                THEN [ui EXCEPT !.loads = @ \ {load},
                                !.nfts = IF load.reset THEN result.nfts
                                         ELSE @ \o result.nfts,
                                !.hasMore = result.hasMore,
                                !.nextLink = result.nextLink,
                                !.loading = FALSE, !.loadingMore = FALSE]
                ELSE [ui EXCEPT !.loads = @ \ {load},
                                !.error = "Failed to load your NFTs. Please try again.",
                                !.loading = FALSE, !.loadingMore = FALSE]
    /\ UNCHANGED <<ledgerVars, calls, faults, cl, mirrorVars>>

\* -------------------------------------------------------- the mirror client
\* mirrorNodeService.ts:4-8  the endpoints; currentNodeIndex counts from 0.
MIRROR_NODES == <<"mainnet-public", "mainnet">>
NodeAt(index) == MIRROR_NODES[index + 1]
Nodes == Range(MIRROR_NODES)
FetchIds == 1..MaxFetches
NoFetch == 0

\* mirrorNodeService.ts:11  an entry of requestCounts. count = 0 stands for no
\* entry; expired stands for Date.now() > resetTime, the window of the entry
\* (RATE_LIMIT_WINDOW after its first request) being over.
NoStats == [count |-> 0, expired |-> FALSE]
NoNode == ""

ErrAllMirrors == "All mirror nodes failed"
ErrMirrorRequest == "Mirror node request failed"

\* mirrorNodeService.ts:10-11  the module state after loading; running is the call
\* that holds the (single) thread between two awaits, NoFetch if none does.
IdleMirror == [currentNodeIndex |-> 0,
               requestCounts |-> [n \in Nodes |-> NoStats],
               running |-> NoFetch,
               windows |-> [n \in Nodes |-> 0]]

\* mirrorNodeService.ts:66-67  the locals of one call, plus a log: the number of
\* requests it sent, the endpoint of its latest request, the endpoint whose 429
\* it is recovering from, whether all its answers were 429, and the number of
\* rate-limit rotations it made (counted up to one full round).
IdleFetch == [pc |-> "idle", attempts |-> 0, lastError |-> "", error |-> "",
              requests |-> 0, node |-> NoNode, from429 |-> NoNode,
              only429 |-> TRUE, skips |-> 0]

\* Mutant of GetNextMirrorNode: the index is advanced without wrapping around.
GetNextMirrorNodeNoWrap(index) == index + 1

\* mirrorNodeService.ts:19-22
GetNextMirrorNode(index) == (index + 1) % Len(MIRROR_NODES)

\* Mutant of IsApproachingRateLimit: the threshold itself is still allowed.
IsApproachingAboveLimit(stats) ==
    IF stats.count = 0 THEN [result |-> FALSE, stats |-> stats]
    ELSE IF stats.expired THEN [result |-> FALSE, stats |-> NoStats]
    ELSE [result |-> stats.count > MAX_REQUESTS_PER_WINDOW, stats |-> stats]

\* Mutant of IsApproachingRateLimit: the end of the window is not looked at.
IsApproachingNoReset(stats) ==
    IF stats.count = 0 THEN [result |-> FALSE, stats |-> stats]
    ELSE [result |-> stats.count >= MAX_REQUESTS_PER_WINDOW, stats |-> stats]

\* mirrorNodeService.ts:27-40  isApproachingRateLimit on the entry of the node:
\* its result and what it leaves of the entry (an entry whose window is over is
\* deleted).
IsApproachingRateLimit(stats) ==
    IF stats.count = 0 THEN [result |-> FALSE, stats |-> stats]
    ELSE IF stats.expired THEN [result |-> FALSE, stats |-> NoStats]
    ELSE [result |-> stats.count >= MAX_REQUESTS_PER_WINDOW, stats |-> stats]

\* mirrorNodeService.ts:45-57  trackRequest
TrackRequest(stats) ==
    IF stats.count = 0 \/ stats.expired
    THEN [count |-> 1, expired |-> FALSE]
    ELSE [stats EXCEPT !.count = @ + 1]

\* Mutant of BudgetLeft: one attempt more than maxRetries.
BudgetLeftInclusive(attempts) == attempts <= DefaultMaxRetries

\* mirrorNodeService.ts:69  while (attempts < maxRetries)
BudgetLeft(attempts) == attempts < DefaultMaxRetries

\* mirrorNodeService.ts:62-67  a call of fetchFromMirrorNode starts (calls are
\* numbered in the order they start).
FetchFromMirrorNode(c) ==
    /\ fetches[c].pc = "idle"
    /\ \A d \in FetchIds : d < c => fetches[d].pc # "idle"
    /\ mirror.running = NoFetch
    /\ fetches' = [fetches EXCEPT ![c].pc = "loop"]
    /\ mirror' = [mirror EXCEPT !.running = c]
    /\ UNCHANGED <<ledgerVars, calls, faults, cl, ui>>

\* mirrorNodeService.ts:69-84, 114  one pass of the loop head, up to the next await:
\* the budget is used up and the call throws; or the current node is at its
\* threshold and the index is rotated (the loop continues without waiting); or
\* the request is counted and sent.
WhileLoop(c) ==
    /\ fetches[c].pc = "loop"
    /\ mirror.running = c
    /\ LET currentNode == NodeAt(mirror.currentNodeIndex)
           stats == mirror.requestCounts[currentNode]
           check == IsApproachingRateLimit(stats)
       IN IF ~BudgetLeft(fetches[c].attempts)
          THEN /\ fetches' = [fetches EXCEPT
                     ![c].pc = "failed",
                     ![c].error = IF fetches[c].lastError # ""
                                  THEN fetches[c].lastError ELSE ErrAllMirrors]
               /\ mirror' = [mirror EXCEPT !.running = NoFetch]
          ELSE IF check.result
          THEN /\ fetches' = [fetches EXCEPT
                     ![c].skips = IF @ < Len(MIRROR_NODES) THEN @ + 1 ELSE @]
               /\ mirror' = [mirror EXCEPT
                     !.requestCounts[currentNode] = check.stats,
                     !.currentNodeIndex = GetNextMirrorNode(@)]
          ELSE /\ fetches' = [fetches EXCEPT
                     ![c].pc = "fetch",
                     ![c].requests = @ + 1,
                     ![c].node = currentNode,
                     ![c].skips = 0]
               /\ mirror' = [mirror EXCEPT
                     !.requestCounts[currentNode] = TrackRequest(check.stats),
                     !.running = NoFetch]
    /\ UNCHANGED <<ledgerVars, calls, faults, cl, ui>>

\* mirrorNodeService.ts:84-111  the fetch settles: an OK response is returned; a
\* 429 rotates, counts an attempt and waits 1 s; any other response, or a throw,
\* is caught, rotates, counts an attempt and waits 1 s if the budget is not used up.
Response(c) ==
    /\ fetches[c].pc = "fetch"
    /\ mirror.running = NoFetch
    /\ \E r \in {"ok", "429", "nonOK", "throws"} :
          /\ fetches' = [fetches EXCEPT
                ![c].from429 = IF r = "429" THEN fetches[c].node ELSE NoNode,
                ![c].only429 = @ /\ r = "429",
                ![c].attempts = IF r = "ok" THEN @ ELSE @ + 1,
                ![c].lastError = CASE r = "nonOK" -> ErrMirrorRequest
                                   [] r = "throws" -> ErrNetwork
                                   [] OTHER -> @,
                ![c].pc = CASE r = "ok" -> "returned"
                            [] r = "429" -> "backoff"
                            [] OTHER -> IF BudgetLeft(fetches[c].attempts + 1)
                                        THEN "backoff" ELSE "loop"]
          /\ mirror' = [mirror EXCEPT
                !.currentNodeIndex = IF r = "ok" THEN @ ELSE GetNextMirrorNode(@),
                !.running = IF r \in {"nonOK", "throws"}
                               /\ ~BudgetLeft(fetches[c].attempts + 1)
                            THEN c ELSE NoFetch]
    /\ UNCHANGED <<ledgerVars, calls, faults, cl, ui>>

\* mirrorNodeService.ts:91, 109  the 1 s timer fires and the loop goes on.
Backoff(c) ==
    /\ fetches[c].pc = "backoff"
    /\ mirror.running = NoFetch
    /\ fetches' = [fetches EXCEPT ![c].pc = "loop"]
    /\ mirror' = [mirror EXCEPT !.running = c]
    /\ UNCHANGED <<ledgerVars, calls, faults, cl, ui>>

\* mirrorNodeService.ts:28, 34, 46, 49  time passes: the window of an entry ends
\* (Date.now() gets past its resetTime).
WindowExpires(n) ==
    /\ mirror.requestCounts[n].count # 0
    /\ ~mirror.requestCounts[n].expired
    /\ mirror.windows[n] < MaxWindows
    /\ mirror' = [mirror EXCEPT !.requestCounts[n].expired = TRUE,
                                !.windows[n] = @ + 1]
    /\ UNCHANGED <<ledgerVars, calls, faults, cl, ui, fetches>>

\* ------------------------------------------------------------------- specs
\* The handler under direct callers: u1 has sent old serial 1 to the blackhole and
\* still holds the other old serials; the treasury holds every new serial.
InitServer ==
    /\ oldOwner = [s \in AllSerials |-> IF s = 1 THEN Blackhole ELSE "u1"]
    /\ burnedBy = [s \in AllSerials |-> IF s = 1 THEN "u1" ELSE NoUser]
    /\ newOwner = [s \in AllSerials |-> Treasury]
    /\ assocd = Users
    /\ calls = [c \in CallIds |-> IdleCall]
    /\ faults = 0
    /\ cl = IdleClient
    /\ ui = IdleUI
    /\ mirror = IdleMirror
    /\ fetches = [c \in FetchIds |-> IdleFetch]

NextServer ==
    \E c \in CallIds :
        \/ DirectPost(c)
        \/ CheckOwnership(c)
        \/ Decide(c)
        \/ Execute(c)

SpecServer == InitServer /\ [][NextServer]_vars

\* The client and the handler, end to end. Serials 1..MaxSerial start in any state
\* earlier swaps can leave: untouched, old serial burnt only, swapped, or the new
\* serial already handed out while the old one is still held.
PreStates == {"fresh", "burnt", "swapped", "taken"}

Init ==
    /\ \E pre \in [DirectSerials -> PreStates] :
          /\ oldOwner = [s \in AllSerials |->
                IF s \in DirectSerials /\ pre[s] \in {"burnt", "swapped"}
                THEN Blackhole ELSE ClientUser]
          /\ burnedBy = [s \in AllSerials |->
                IF s \in DirectSerials /\ pre[s] \in {"burnt", "swapped"}
                THEN ClientUser ELSE NoUser]
          /\ newOwner = [s \in AllSerials |->
                IF s \in DirectSerials /\ pre[s] \in {"swapped", "taken"}
                THEN ClientUser ELSE Treasury]
    /\ assocd \in SUBSET Users
    /\ calls = [c \in CallIds |-> IdleCall]
    /\ faults = 0
    /\ cl = IdleClient
    /\ ui = IdleUI
    /\ mirror = IdleMirror
    /\ fetches = [c \in FetchIds |-> IdleFetch]

Next ==
    \/ StartSingle
    \/ StartMultiple
    \/ Connect
    \/ AssocResult
    \/ SignResult
    \/ Receipt
    \/ BackendResponse
    \/ Return
    \/ Pace
    \/ CheckOwnership(ClientCall)
    \/ Decide(ClientCall)
    \/ Execute(ClientCall)

Spec == Init /\ [][Next]_vars

\* The NFT list driving the client: u1 holds every old serial, the treasury every
\* new one; the account may or may not be associated with the new token.
InitUI ==
    /\ oldOwner = [s \in AllSerials |-> ClientUser]
    /\ burnedBy = [s \in AllSerials |-> NoUser]
    /\ newOwner = [s \in AllSerials |-> Treasury]
    /\ assocd \in SUBSET Users
    /\ calls = [c \in CallIds |-> IdleCall]
    /\ faults = 0
    /\ cl = IdleClient
    /\ ui = IdleUI
    /\ mirror = IdleMirror
    /\ fetches = [c \in FetchIds |-> IdleFetch]

NextUI ==
    \/ LoadNFTs
    \/ HandleSwapSingle
    \/ HandleSwapAll
    \/ CancelSwapConfirm
    \/ ConfirmSwap
    \/ ExecuteSwapReturns
    \/ ExecuteSwapDeclined
    \/ ExecuteMassSwapReturns
    \/ CloseResult
    \/ Connect
    \/ AssocResult
    \/ SignResult
    \/ Receipt
    \/ BackendResponse
    \/ Return
    \/ Pace
    \/ CheckOwnership(ClientCall)
    \/ Decide(ClientCall)
    \/ Execute(ClientCall)

SpecUI == InitUI /\ [][NextUI]_vars

\* The NFT list loading its pages while swaps started from it succeed. The
\* account holds the old serials 1..n; the others were swapped before.
InitList ==
    /\ \E n \in 0..MaxHeld :
          /\ oldOwner = [s \in AllSerials |-> IF s <= n THEN ClientUser ELSE Blackhole]
          /\ burnedBy = [s \in AllSerials |-> IF s <= n THEN NoUser ELSE ClientUser]
          /\ newOwner = [s \in AllSerials |-> IF s <= n THEN Treasury ELSE ClientUser]
    /\ assocd = Users
    /\ calls = [c \in CallIds |-> IdleCall]
    /\ faults = 0
    /\ cl = IdleClient
    /\ ui = IdleUI
    /\ mirror = IdleMirror
    /\ fetches = [c \in FetchIds |-> IdleFetch]

NextList ==
    \/ Mount
    \/ SetPageSize
    \/ LoadMore
    \/ ExecuteSwapBegins
    \/ ExecuteSwapSucceeds
    \/ ExecuteSwapFails
    \/ LoadSettles

SpecList == InitList /\ [][NextList]_vars

\* The mirror client under interleaved calls. Earlier calls may have left any
\* rotation index and, for each endpoint, no entry or an entry near the threshold,
\* its window still open or already over.
InitStats ==
    {NoStats} \cup
    { [count |-> k, expired |-> e] :
         k \in (MAX_REQUESTS_PER_WINDOW - MaxHeadroom)..MAX_REQUESTS_PER_WINDOW,
         e \in BOOLEAN }

InitMirror ==
    /\ oldOwner = [s \in AllSerials |-> ClientUser]
    /\ burnedBy = [s \in AllSerials |-> NoUser]
    /\ newOwner = [s \in AllSerials |-> Treasury]
    /\ assocd = Users
    /\ calls = [c \in CallIds |-> IdleCall]
    /\ faults = 0
    /\ cl = IdleClient
    /\ ui = IdleUI
    /\ \E index \in 0..(Len(MIRROR_NODES) - 1), counts \in [Nodes -> InitStats] :
          mirror = [IdleMirror EXCEPT !.currentNodeIndex = index,
                                      !.requestCounts = counts]
    /\ fetches = [c \in FetchIds |-> IdleFetch]

NextMirror ==
    \/ \E c \in FetchIds :
          \/ FetchFromMirrorNode(c)
          \/ WhileLoop(c)
          \/ Response(c)
          \/ Backoff(c)
    \/ \E n \in Nodes : WindowExpires(n)

SpecMirror == InitMirror /\ [][NextMirror]_vars

\* The mirror client when every endpoint is at or just under its threshold, the
\* windows still open.
InitMirrorBusy ==
    /\ InitMirror
    /\ \A n \in Nodes :
          /\ mirror.requestCounts[n].count # 0
          /\ ~mirror.requestCounts[n].expired

\* Every call gets its turn, every fetch and timer settles, and time passes.
SpecMirrorFair ==
    /\ InitMirrorBusy
    /\ [][NextMirror]_vars
    /\ \A c \in FetchIds :
          /\ WF_vars(FetchFromMirrorNode(c))
          /\ WF_vars(WhileLoop(c))
          /\ WF_vars(Response(c))
          /\ WF_vars(Backoff(c))
    /\ \A n \in Nodes : WF_vars(WindowExpires(n))

\* ================================================================== claims
\* What the ownership queries of an invocation reported, recomputed from its log:
\* the requested serials whose query said "owned" (keepOwned) or did not.
RECURSIVE SelectByOutcome(_, _, _)
SelectByOutcome(serials, outcomes, keepOwned) ==
    IF outcomes = <<>> THEN <<>>
    ELSE LET rest == SelectByOutcome(Tail(serials), Tail(outcomes), keepOwned)
         IN IF (Head(outcomes) = "owned") = keepOwned
            THEN <<Head(serials)>> \o rest ELSE rest

ReportedOwned(c) == SelectByOutcome(calls[c].serials, calls[c].queried, TRUE)
ReportedMissing(c) == SelectByOutcome(calls[c].serials, calls[c].queried, FALSE)
LoopDone(c) == calls[c].pc = "execute" \/ (calls[c].pc = "done" /\ ~MissingFields(calls[c].req))
Covers(c, s) == calls[c].receipt = "Success" /\ s \in Range(calls[c].transfer)
Concurrent(c, d) == d \in calls[c].overlaps \/ c \in calls[d].overlaps

\* C1 (as claimed): no account holds new serial s unless old serial s was moved
\* from that account to the blackhole.
C1_BurnBeforeDisburse ==
    \A s \in AllSerials :
        newOwner[s] \in Users => (oldOwner[s] = Blackhole /\ burnedBy[s] = newOwner[s])

\* C2: the client has posted to /api/swap (and a handler invocation serves it)
\* only if the receipt of its own transfer is SUCCESS and the serials of the
\* request are in the blackhole; after a rejected signature or a non-SUCCESS
\* receipt there is no POST for the batch.
C2_PostOnlyAfterSuccess ==
    /\ (cl.posts > 0 \/ calls[ClientCall].pc # "idle") =>
          /\ cl.receipt = "SUCCESS"
          /\ \A i \in DOMAIN cl.batch : oldOwner[cl.batch[i]] = Blackhole
    /\ (cl.pc = "return" /\ cl.receipt # "SUCCESS") =>
          (cl.posts = 0 /\ calls[ClientCall].pc = "idle" /\ ~cl.batchResult.success)

C2_Witness ==
    /\ cl.pc = "backend" /\ cl.op = "multiple" /\ Len(cl.batch) = BATCH_SIZE
    /\ calls[ClientCall].pc = "execute"

\* C3: the transfer the handler builds holds exactly the requested serials whose
\* ownership query reported the treasury as owner, in request order; and when at
\* least one was reported owned the request is not answered 400 but goes on to
\* execute the transfer.
C3_TransferIsReportedOwned ==
    \A c \in CallIds :
        LoopDone(c) =>
          /\ calls[c].transfer = ReportedOwned(c)
          /\ Len(calls[c].queried) = Len(calls[c].serials)
          /\ (calls[c].pc = "done" /\ ReportedOwned(c) # <<>>) =>
                (calls[c].receipt # "none" /\ calls[c].resp.status # 400)
          /\ (calls[c].receipt = "Success") =>
                \A s \in Range(ReportedOwned(c)) : newOwner[s] = calls[c].req.userAccountId

C3_Witness ==
    \E c \in CallIds :
        /\ calls[c].receipt = "Success"
        /\ Len(calls[c].serials) = 2
        /\ Len(calls[c].transfer) = 1
        /\ calls[c].queried[1] # "owned"

\* C4 (as claimed): of two concurrent calls that request the same serial, at most
\* one gets a Success receipt covering it and the other ends in an error response.
C4_LoserGetsError ==
    \A c, d \in CallIds : \A s \in DirectSerials :
        (c # d /\ Concurrent(c, d) /\ Covers(c, s)
           /\ s \in Range(calls[d].serials) /\ calls[d].pc = "done")
        => (~Covers(d, s) /\ calls[d].resp.status \in {400, 500})

\* C4 (amended): of two concurrent calls that request the same serial, at most one
\* gets a Success receipt covering it; the other leaves it unmoved and ends in an
\* error response or in a 200 response that lists the serial as missing.
C4_AtMostOnce ==
    \A c, d \in CallIds : \A s \in DirectSerials :
        (c # d /\ Concurrent(c, d) /\ Covers(c, s)
           /\ s \in Range(calls[d].serials) /\ calls[d].pc = "done")
        => /\ ~Covers(d, s)
           /\ \/ calls[d].resp.status \in {400, 500}
              \/ /\ calls[d].resp.status = 200
                 /\ s \notin Range(calls[d].resp.serialNumbers)
                 /\ s \in Range(calls[d].resp.missingSerials)

C4_Witness ==
    \E c, d \in CallIds : \E s \in DirectSerials :
        /\ c # d /\ Concurrent(c, d) /\ Covers(c, s)
        /\ s \in Range(calls[d].transfer)
        /\ calls[d].receipt = "Rejected"

\* Two batch requests raced for a serial: both found it owned, c's transfer
\* settled, and d's transfer (not hit by a transient failure) came after.
RaceLost(c, d) ==
    /\ c # d
    /\ IsMultiple(calls[c].req) /\ IsMultiple(calls[d].req)
    /\ calls[c].receipt = "Success"
    /\ calls[d].pc = "done" /\ calls[d].receipt \notin {"none", "Busy"}
    /\ Range(calls[c].transfer) \cap Range(calls[d].transfer) # {}

\* C5 (as claimed): the request that loses the overlapping serial is still
\* answered 200.
C5_LoserPartialSuccess ==
    \A c, d \in CallIds : RaceLost(c, d) => calls[d].resp.status = 200

\* C5 (amended): the request that loses the overlapping serial has its whole
\* transfer rejected: it is answered 500 and disburses none of its serials.
C5_LoserRejected ==
    \A c, d \in CallIds :
        RaceLost(c, d) =>
          /\ calls[d].receipt = "Rejected"
          /\ calls[d].resp = Resp500
          /\ \A t \in Range(calls[d].transfer) :
                newOwner[t] # Treasury => \E e \in CallIds \ {d} : Covers(e, t)

C5_Witness ==
    \E c, d \in CallIds :
        /\ RaceLost(c, d)
        /\ \E t \in Range(calls[d].transfer) \ Range(calls[c].transfer) :
              newOwner[t] = Treasury

\* C6: a well-formed request none of whose serials the treasury holds is answered
\* 400 "already swapped" with missingSerials = the requested list, in request
\* order, and no transfer is built or executed.
C6_AllAlreadySwapped ==
    \A c \in CallIds :
        (calls[c].pc # "idle" /\ ~MissingFields(calls[c].req)
            /\ calls[c].ownedAtStart = {})
        => /\ calls[c].pc \in {"check", "done"}
           /\ calls[c].transfer = <<>>
           /\ calls[c].receipt = "none"
           /\ calls[c].pc = "done" =>
                 /\ calls[c].resp.status = 400
                 /\ calls[c].resp.error = ErrAllSwapped
                 /\ calls[c].resp.hasMissing
                 /\ calls[c].resp.missingSerials = calls[c].serials

C6_Witness ==
    \E c, d \in CallIds :
        /\ c # d
        /\ calls[d].receipt = "Success"
        /\ calls[c].req = calls[d].req
        /\ Len(calls[c].serials) = 2
        /\ calls[c].serials[1] # calls[c].serials[2]
        /\ calls[c].ownedAtStart = {}
        /\ calls[c].pc = "done"

\* C7: a Success receipt is answered 200 with success = true, serialNumbers = the
\* serials reported owned and missingSerials = the excluded serials, both in
\* request order; missingSerials is absent when nothing was excluded.
C7_PartialSuccessResponse ==
    \A c \in CallIds :
        calls[c].receipt = "Success" =>
          /\ calls[c].pc = "done"
          /\ calls[c].resp.status = 200
          /\ calls[c].resp.success
          /\ calls[c].resp.serialNumbers = ReportedOwned(c)
          /\ calls[c].resp.hasMissing = (ReportedMissing(c) # <<>>)
          /\ calls[c].resp.missingSerials = ReportedMissing(c)
          /\ Len(calls[c].resp.serialNumbers) + Len(calls[c].resp.missingSerials)
                = Len(calls[c].serials)

C7_Witness ==
    \E c \in CallIds :
        /\ calls[c].receipt = "Success"
        /\ calls[c].resp.hasMissing
        /\ calls[c].resp.serialNumbers = <<2>>
        /\ calls[c].resp.missingSerials = <<1>>
        /\ calls[c].serials = <<2, 1>>

\* A required field is absent: the transaction id, the account, or the serial
\* (no serialNumber of a single request, no or empty serialNumbers of a batch).
FieldAbsent(req) ==
    \/ req.oldNftTransactionId = Undefined
    \/ req.userAccountId = NoUser
    \/ (~req.isBatch /\ req.serialNumber = Undefined)
    \/ (req.isBatch /\ (~req.hasSerialNumbers \/ Len(req.serialNumbers) = 0))

\* C8 (as claimed): a request with a required field absent is answered 400 before
\* any ownership query or transfer.
C8_MissingFieldRejected ==
    \A c \in CallIds :
        (calls[c].pc # "idle" /\ FieldAbsent(calls[c].req)) =>
          /\ calls[c].pc = "done"
          /\ calls[c].resp.status = 400
          /\ calls[c].queried = <<>>
          /\ calls[c].receipt = "none"

\* C9 (as claimed): over all calls that carry one oldNftTransactionId, at most one
\* treasury transfer is executed.
C9_ConsumedOnce ==
    \A t \in DirectTxIds :
        Cardinality({ c \in CallIds : calls[c].req.oldNftTransactionId = t
                                        /\ calls[c].receipt = "Success" }) <= 1

CeilDiv(n, d) == (n + d - 1) \div d

RECURSIVE Concat(_)
Concat(seqs) == IF seqs = <<>> THEN <<>> ELSE Head(seqs) \o Concat(Tail(seqs))

\* The batch that holds the i-th serial of the input, and the result recorded for
\* the first serial of batch k.
BatchOf(i) == ((i - 1) \div BATCH_SIZE) + 1
FirstOf(k) == (k - 1) * BATCH_SIZE + 1
Finished == cl.op = "multiple" /\ cl.pc = "done"

\* C11: when swapMultipleNFTs has returned for an input of N serials, it has
\* called swapBatchNFTs on ceil(N/10) batches, every batch but the last of size
\* 10, the batches in order concatenating to the input, whatever the outcome of
\* the earlier batches was; while it runs, batch batchIndex has been attempted.
C11_EveryBatchAttempted ==
    /\ (cl.op = "multiple" /\ cl.pc \notin {"idle", "done"})
          => Len(cl.attempted) = cl.batchIndex
    /\ Finished =>
          LET n == Len(cl.serialNumbers)
              b == cl.attempted
          IN /\ Len(b) = CeilDiv(n, BATCH_SIZE)
             /\ \A k \in 1..Len(b) :
                   Len(b[k]) = IF k < Len(b) THEN BATCH_SIZE
                               ELSE n - BATCH_SIZE * (Len(b) - 1)
             /\ Concat(b) = cl.serialNumbers

\* Three batches: the first rejected by the backend, the second refused in the
\* wallet, the third still attempted and signed.
C11_Witness ==
    /\ Finished
    /\ Len(cl.attempted) = 3
    /\ cl.results[FirstOf(1)].error = ErrTransfer
    /\ cl.results[FirstOf(2)].error = ErrRejected
    /\ cl.batchIndex = 3 /\ cl.signCalls = 1

\* C12: swapMultipleNFTs returns one SwapResult per input serial, in input order;
\* the result of a serial carries the success flag of what swapBatchNFTs returned
\* for its batch, with that batch's transactionId if it succeeded and that batch's
\* error message if it failed.
C12_OneResultPerSerial ==
    Finished =>
       /\ Len(cl.results) = Len(cl.serialNumbers)
       /\ \A i \in 1..Len(cl.results) :
             LET r == cl.results[i]
                 b == cl.returned[BatchOf(i)]
             IN /\ r.serialNumber = cl.serialNumbers[i]
                /\ r.success = b.success
                /\ b.success => r.transactionId = b.transactionId /\ r.error = ""
                /\ ~b.success => r.error = b.error /\ r.transactionId = Undefined

\* The scenario of 21+ serials: batch 2 failed, batches 1 and 3 succeeded.
C12_Witness ==
    /\ Finished
    /\ Len(cl.returned) = 3
    /\ cl.returned[1].success /\ ~cl.returned[2].success /\ cl.returned[3].success
    /\ cl.results[FirstOf(2)].error = ErrReceipt
    /\ cl.results[FirstOf(1)].transactionId # cl.results[FirstOf(3)].transactionId

\* C13 (as claimed): once a batch of a swapMultipleNFTs run has returned
\* "Wallet not connected" or "No signer available", no later batch is attempted
\* and no pacing delay is waited.
C13_ConnectionFailureAborts ==
    cl.op = "multiple" =>
       \A k \in 1..Len(cl.returned) :
          cl.returned[k].error \in {ErrNoWallet, ErrNoSigner}
             => /\ Len(cl.attempted) = k
                /\ cl.delays = k - 1

\* The association queries that do not show a link to the token.
FailedAssocQueries == {"throws", "nonOK", "empty"}

\* C14: isTokenAssociated is false for a query that throws, answers non-OK or
\* lists no token link; and a call of swapSingleNFT / swapBatchNFTs whose check was
\* false has returned TOKEN_NOT_ASSOCIATED without handing any transaction to the
\* wallet, submitting any transfer or posting to the backend.
C14_FailClosed ==
    /\ \A q \in FailedAssocQueries : ~IsTokenAssociated(q)
    /\ cl.assocQuery \in FailedAssocQueries =>
          /\ cl.pc \in {"return", "pace", "done"}
          /\ cl.batchResult = [NoBatchResult EXCEPT !.error = ErrNotAssociated,
                                                    !.serialNumbers = cl.batch]
          /\ cl.signCalls = 0 /\ cl.entries = 0 /\ cl.posts = 0
          /\ cl.receipt = "none" /\ cl.txid = Undefined
          /\ Len(cl.signed) < Len(cl.attempted)
          /\ calls[ClientCall].pc = "idle"

\* The account is associated, the query throws: the batch call returns the error
\* and the old serials stay where they were.
C14_Witness ==
    /\ cl.op = "multiple" /\ cl.pc = "return"
    /\ ClientUser \in assocd
    /\ cl.assocQuery = "throws"
    /\ cl.signed = <<>>
    /\ \A i \in DOMAIN cl.batch : oldOwner[cl.batch[i]] = ClientUser

\* A swap started from the NFT list has ended, and the client found the account
\* not associated with the new token.
EndedNotAssociated(kind) ==
    /\ ClientUser \notin assocd
    /\ ui.running = "none" /\ cl.pc = "done" /\ cl.op = kind
    /\ \E i \in DOMAIN cl.results : cl.results[i].error = ErrNotAssociated

\* C15 (as claimed): when a single swap or a mass swap started from the NFT list
\* ends because the account is not associated, the dialog it opens is the
\* association prompt and not the result dialog.
C15_RoutesToAssociationPrompt ==
    ((EndedNotAssociated("single") \/ EndedNotAssociated("multiple"))
        /\ (ui.showResultModal \/ ui.showAssociationModal))
       => (ui.showAssociationModal /\ ~ui.showResultModal)

\* C16 (as claimed): when a single swap has ended because the account is not
\* associated, the swap that a successful association retries is that swap: the
\* serial handleAssociateToken passes to executeSwap is the serial that failed.
C16_RetriesSameSerial ==
    (EndedNotAssociated("single") /\ (ui.showResultModal \/ ui.showAssociationModal))
       => RetriedSerial = cl.results[1].serialNumber

\* C17 (as claimed): a serial that swapMultipleNFTs reports with success = true
\* had its new-collection token disbursed: the user holds the new serial.
C17_ReportedOnlyIfDisbursed ==
    cl.op = "multiple" =>
       \A i \in DOMAIN cl.results :
          cl.results[i].success => newOwner[cl.results[i].serialNumber] = ClientUser

\* C18 (as claimed): a serial reported as failed after its old-side transfer
\* committed and its fulfillment call was made can still be swapped by a re-run
\* while the treasury holds its new serial: the user still holds the old serial
\* that every run has to transfer first.
C18_FailedIsRecoverable ==
    \A i \in DOMAIN cl.results :
       LET s == cl.results[i].serialNumber IN
       (~cl.results[i].success /\ s \in Range(Concat(cl.posted))
           /\ newOwner[s] = Treasury)
          => UserOwnsAll(ClientUser, <<s>>)

\* C19: while batch k of a swapMultipleNFTs run is being processed, every earlier
\* batch has returned and has its results recorded, only batches up to k have
\* been handed to the wallet, and until batch k's own POST no fulfillment call is
\* outstanding: a signing request is issued only when nothing else is in flight.
C19_BatchesSequential ==
    (cl.op = "multiple" /\ cl.pc \notin {"idle", "done"}) =>
       LET k == cl.batchIndex IN
       /\ Len(cl.returned) = IF cl.pc = "pace" THEN k ELSE k - 1
       /\ Len(cl.results) = Len(Concat(SubSeq(cl.attempted, 1, Len(cl.returned))))
       /\ Len(cl.signed) <= k /\ Len(cl.posted) <= Len(cl.signed)
       /\ cl.pc \in {"connect", "assoc"} => Len(cl.signed) <= k - 1
       /\ cl.pc = "sign" => /\ cl.signed[Len(cl.signed)] = cl.attempted[k]
                            /\ Len(cl.posted) <= k - 1
       /\ cl.pc # "backend" => calls[ClientCall].pc = "idle"

\* Batch 2 is at the wallet after batch 1 went through receipt and fulfillment.
C19_Witness ==
    /\ cl.op = "multiple" /\ cl.pc = "sign" /\ cl.batchIndex = 2
    /\ cl.returned[1].success
    /\ Len(cl.results) = BATCH_SIZE
    /\ cl.posted = <<cl.attempted[1]>>

\* The transfers handed to the wallet, and the POSTs to /api/swap, that carry
\* serial s in the current run.
SubmissionsOf(s) == { j \in DOMAIN cl.signed : s \in Range(cl.signed[j]) }
FulfillmentsOf(s) == { j \in DOMAIN cl.posted : s \in Range(cl.posted[j]) }
NoSerialTwice(log) ==
    \A j, k \in DOMAIN log : j < k => Range(log[j]) \cap Range(log[k]) = {}

\* C20: in one run of swapSingleNFT or swapMultipleNFTs every serial is part of at
\* most one transfer handed to the wallet and of at most one POST to /api/swap,
\* whatever the receipt or the backend answered; a serial is posted only after it
\* was submitted.
C20_NoAutomaticRetry ==
    /\ cl.signCalls <= 1 /\ cl.posts <= 1
    /\ NoSerialTwice(cl.signed)
    /\ NoSerialTwice(cl.posted)
    /\ \A j \in DOMAIN cl.posted : \E k \in DOMAIN cl.signed : cl.posted[j] = cl.signed[k]

\* A finished run in which one batch failed on its receipt and another was
\* rejected by the backend: each was signed once, the second posted once.
C20_Witness ==
    /\ Finished
    /\ Len(cl.returned) >= 2
    /\ cl.returned[1].error = ErrReceipt
    /\ cl.returned[2].error = ErrTransfer
    /\ Cardinality(SubmissionsOf(cl.serialNumbers[FirstOf(1)])) = 1
    /\ Cardinality(FulfillmentsOf(cl.serialNumbers[FirstOf(1)])) = 0
    /\ Cardinality(FulfillmentsOf(cl.serialNumbers[FirstOf(2)])) = 1

\* ---------------------------------------------------------------- C21..C30
\* The call of swapSingleNFT / swapBatchNFTs in progress has read a non-2xx
\* answer of the fulfillment endpoint.
BackendRejected == cl.response.status \notin {0, 200}

C22_RetryBudget ==
    \A c \in FetchIds :
       /\ fetches[c].requests <= DefaultMaxRetries
       /\ fetches[c].pc = "failed" =>
             /\ fetches[c].requests = DefaultMaxRetries
             /\ fetches[c].only429 => fetches[c].error = ErrAllMirrors

C22_Witness ==
    \E c \in FetchIds :
       /\ fetches[c].pc = "failed"
       /\ fetches[c].only429
       /\ fetches[c].requests = DefaultMaxRetries
       /\ fetches[c].error = ErrAllMirrors

\* C23: in every reachable state the request count tracked for each mirror
\* endpoint is at most 80, also when calls of fetchFromMirrorNode interleave: no
\* request is sent to an endpoint whose count for the open window has reached 80.
C23_WithinThreshold ==
    \A n \in Nodes : mirror.requestCounts[n].count <= MAX_REQUESTS_PER_WINDOW

C23_Witness ==
    \E n \in Nodes, c, d \in FetchIds :
       /\ c # d
       /\ fetches[c].node = n
       /\ mirror.requestCounts[n].count = MAX_REQUESTS_PER_WINDOW
       /\ ~mirror.requestCounts[n].expired
       /\ fetches[d].pc = "fetch"
       /\ fetches[d].node # n

\* C24: after a call of fetchFromMirrorNode got a 429 from an endpoint, the next
\* request of that call goes to a different endpoint, also when several calls
\* interleave and share the rotation index.
C24_RotateOn429 ==
    \A c \in FetchIds :
       (fetches[c].pc = "fetch" /\ fetches[c].from429 # NoNode)
          => fetches[c].node # fetches[c].from429

\* The serials of the batches that have completed so far.
Processed == Len(Concat(SubSeq(cl.attempted, 1, Len(cl.returned))))

\* C25 (as stated): the progress callback of swapMultipleNFTs has been invoked
\* once per completed batch, with the cumulative number of serials processed and
\* the last serial of that batch.
C25_OncePerBatch ==
    cl.op = "multiple" =>
       /\ Len(cl.progress) = Len(cl.returned)
       /\ \A k \in 1..Len(cl.progress) :
             cl.progress[k] =
                <<Len(Concat(SubSeq(cl.attempted, 1, k))), Len(cl.serialNumbers),
                  cl.attempted[k][Len(cl.attempted[k])]>>

\* C25 (amended): the progress callback of swapMultipleNFTs has been invoked once
\* per serial of every completed batch and for no serial of a batch still in
\* progress; its i-th invocation carries i, the size of the input and the i-th
\* serial of the input.
C25_OncePerSerial ==
    cl.op = "multiple" =>
       /\ Len(cl.progress) = Processed
       /\ \A i \in 1..Len(cl.progress) :
             cl.progress[i] = <<i, Len(cl.serialNumbers), cl.serialNumbers[i]>>

C25_Witness ==
    /\ cl.op = "multiple"
    /\ cl.pc = "pace"
    /\ Len(cl.returned) = 1
    /\ Len(cl.progress) = BATCH_SIZE
    /\ cl.progress[BATCH_SIZE] =
          <<BATCH_SIZE, Len(cl.serialNumbers), cl.serialNumbers[BATCH_SIZE]>>

\* C26: in swapMultipleNFTs one pacing delay has been waited between every two
\* consecutive batches, whether the earlier one succeeded or failed: when batch
\* k has started, k - 1 delays have been waited; a delay follows a batch only if
\* another batch follows it, so a finished run of B batches has waited B - 1
\* delays (none for an empty input), and none within a batch.
C26_Pacing ==
    cl.op = "multiple" =>
       /\ cl.delays = IF cl.attempted = <<>> THEN 0 ELSE Len(cl.attempted) - 1
       /\ cl.pc = "pace" => Len(cl.returned) < NumBatches(cl.serialNumbers)
       /\ cl.pc = "done" =>
             /\ Len(cl.returned) = NumBatches(cl.serialNumbers)
             /\ cl.delays = IF cl.serialNumbers = <<>> THEN 0
                            ELSE CeilDiv(Len(cl.serialNumbers), BATCH_SIZE) - 1

C26_Witness ==
    /\ Finished
    /\ Len(cl.returned) = 3
    /\ ~cl.returned[1].success
    /\ cl.returned[2].success
    /\ cl.delays = 2

\* C27: a swap that failed with the wallet or the signer error has made no
\* association query, no signing request and no fulfillment call; and whenever
\* the wallet has been asked to sign and the association check is not skipped,
\* the association query has been made before and found the account
\* associated, so no signing request is out while the query is pending.
C27_StepOrdering ==
    /\ cl.batchResult.error \in {ErrNoWallet, ErrNoSigner} =>
          /\ cl.assocQuery = "none"
          /\ cl.signCalls = 0
          /\ cl.posts = 0
    /\ (cl.signCalls > 0 /\ ~(cl.op = "single" /\ cl.skipAssociationCheck)) =>
          cl.assocQuery = "listed"
    /\ cl.pc = "assoc" => (cl.signCalls = 0 /\ cl.posts = 0)

C27_Witness ==
    /\ cl.op = "single"
    /\ ~cl.skipAssociationCheck
    /\ cl.pc = "done"
    /\ cl.batchResult.error = ErrNoSigner
    /\ cl.assocQuery = "none"
    /\ cl.signCalls = 0

\* C28: when the association query of the swap flow was answered non-OK (a 429
\* among them) or threw, and the account is concluded to be not associated, the
\* query has been sent again to another mirror endpoint before.
C28_AssociationQueryRetried ==
    (cl.assocQuery \in FailedAssocQueries
        /\ cl.batchResult.error = ErrNotAssociated) =>
       \E i, j \in 1..Len(cl.assocNodes) : cl.assocNodes[i] # cl.assocNodes[j]

\* C29: a serial is put in missingSerials (and so counted towards the
\* all-already-swapped 400) only if the treasury does not own it; a failed
\* ownership query for a serial the treasury still owns does not make the serial
\* reported as already swapped.
C29_MissingOnlyIfDisbursed ==
    \A c \in CallIds :
       \A s \in Range(calls[c].missingSerials) : ~TreasuryOwns(s)

\* C30: every call of fetchFromMirrorNode terminates, returning or throwing; in
\* particular the rate-limit rotation, which uses up no attempt, does not go on
\* for ever when every endpoint is at its threshold.
C30_Terminates ==
    \A c \in FetchIds :
       (fetches[c].pc # "idle") ~> (fetches[c].pc \in {"returned", "failed"})

C30_Witness ==
    \E c \in FetchIds :
       /\ fetches[c].skips >= Len(MIRROR_NODES)
       /\ \A n \in Nodes : mirror.windows[n] = 0
       /\ \A n \in Nodes : IsApproachingRateLimit(mirror.requestCounts[n]).result

\* ------------------------------------------------------------- C31..C37

C32_ProgressCountsSwapped ==
    cl.op = "multiple" =>
       \A i \in 1..Len(cl.progress) :
          /\ i <= Len(cl.results)
          /\ cl.progress[i][1] =
                Cardinality({ j \in 1..i : cl.results[j].success })

\* The call of swapSingleNFT that skips the association check, and a call of
\* swapSingleNFT / swapBatchNFTs that has returned.
Skips == cl.op = "single" /\ cl.skipAssociationCheck
CallReturned == cl.pc \in {"return", "pace", "done"} /\ cl.batch # <<>>

\* C33 (as stated): a call of swapSingleNFT with skipAssociationCheck = true has
\* made no association query; every other call of swapSingleNFT, and every call
\* of swapBatchNFTs, has made exactly one by the time it returns.
C33_QueriedExactlyOnce ==
    /\ Skips => cl.assocNodes = <<>>
    /\ (CallReturned /\ ~Skips) => Len(cl.assocNodes) = 1

\* C33 (amended): a call of swapSingleNFT with skipAssociationCheck = true makes
\* no association query and never waits for one; any other call of swapSingleNFT
\* or swapBatchNFTs makes at most one query, whatever the size of the batch: none
\* if it failed on the wallet or the signer, and exactly one otherwise, made
\* before the wallet is asked to sign.
C33_AssociationQueries ==
    /\ Skips => (cl.assocNodes = <<>> /\ cl.assocQuery = "none" /\ cl.pc # "assoc")
    /\ Len(cl.assocNodes) <= 1
    /\ (CallReturned /\ ~Skips) =>
          Len(cl.assocNodes) =
             IF cl.batchResult.error \in {ErrNoWallet, ErrNoSigner} THEN 0 ELSE 1
    /\ (cl.signCalls > 0 /\ ~Skips) => Len(cl.assocNodes) = 1

C33_Witness ==
    /\ cl.op = "multiple"
    /\ Len(cl.batch) = BATCH_SIZE
    /\ cl.signCalls = 1
    /\ Len(cl.assocNodes) = 1

\* How often serial s occurs in a list.
Occurrences(list, s) == Cardinality({ i \in DOMAIN list : list[i] = s })

\* C34 (as stated): after the ownership loop availableSerials and missingSerials
\* are disjoint, every requested serial occurs in exactly one of them as often as
\* it was requested, and both keep the request order; a 200 response is sent
\* only after a Success receipt, and any other receipt is answered 500 with the
\* error and without a list of disbursed serials.
C34_ExactPartition ==
    \A c \in CallIds :
       /\ LoopDone(c) =>
             /\ Range(calls[c].availableSerials) \cap Range(calls[c].missingSerials) = {}
             /\ \A s \in Range(calls[c].serials) :
                   Occurrences(calls[c].availableSerials, s)
                      + Occurrences(calls[c].missingSerials, s)
                   = Occurrences(calls[c].serials, s)
             /\ calls[c].availableSerials = ReportedOwned(c)
             /\ calls[c].missingSerials = ReportedMissing(c)
       /\ calls[c].resp.status = 200 => calls[c].receipt = "Success"
       /\ calls[c].receipt \in {"Busy", "Rejected"} =>
             /\ calls[c].resp.status = 500
             /\ calls[c].resp.error # ""
             /\ calls[c].resp.serialNumbers = <<>>

\* C34 (amended): after the ownership loop every position of the request is in
\* exactly one of availableSerials and missingSerials, so each requested serial
\* occurs in the two lists together as often as it was requested, both lists
\* keep the request order, and the lists are disjoint when the request names no
\* serial twice; a 200 response is sent only after a Success receipt, and any
\* other receipt is answered 500 with the error and without a list of disbursed
\* serials.
C34_PartitionByPosition ==
    \A c \in CallIds :
       /\ LoopDone(c) =>
             /\ \A s \in Range(calls[c].serials) :
                   Occurrences(calls[c].availableSerials, s)
                      + Occurrences(calls[c].missingSerials, s)
                   = Occurrences(calls[c].serials, s)
             /\ calls[c].availableSerials = ReportedOwned(c)
             /\ calls[c].missingSerials = ReportedMissing(c)
             /\ Cardinality(Range(calls[c].serials)) = Len(calls[c].serials) =>
                   Range(calls[c].availableSerials)
                      \cap Range(calls[c].missingSerials) = {}
       /\ calls[c].resp.status = 200 => calls[c].receipt = "Success"
       /\ calls[c].receipt \in {"Busy", "Rejected"} =>
             /\ calls[c].resp.status = 500
             /\ calls[c].resp.error # ""
             /\ calls[c].resp.serialNumbers = <<>>

C34_Witness ==
    \E c \in CallIds :
       /\ calls[c].pc = "done"
       /\ calls[c].serials = <<2, 1>>
       /\ calls[c].availableSerials = <<1>>
       /\ calls[c].missingSerials = <<2>>
       /\ calls[c].queried = <<"notowned", "owned">>
       /\ calls[c].resp.status = 200

\* The serials of the executeSwap calls in flight.
InFlight ==
    ui.others \cup (IF ui.running = "executeSwap" THEN {cl.serialNumbers[1]} ELSE {})

\* C35: in every reachable state of the NFT list a mass swap and a single swap
\* are not in flight together, and the in-flight markers are those of the calls
\* in flight: a serial is in swapping exactly while its executeSwap runs and
\* massSwapping is true exactly while executeMassSwap runs, so both are cleared
\* when the call has finished, whatever its outcome.
C35_MutualExclusion ==
    /\ ~(ui.massSwapping /\ ui.swapping # {})
    /\ ui.swapping = InFlight
    /\ ui.massSwapping <=> ui.running = "executeMassSwap"

C35_Witness ==
    /\ ui.runs = 2
    /\ ui.running = "none"
    /\ ui.others = {}
    /\ cl.op = "multiple"
    /\ ui.resultMessage.title = TitleMassPartial
    /\ ui.swapping = {}
    /\ ~ui.massSwapping

\* Every page of the account has been loaded: the list is shown, no call of
\* fetchAccountNFTs is in flight and the last one reported no further page.
AllPagesLoaded == ui.loaded /\ ui.loads = {} /\ ui.error = "" /\ ~ui.loading /\ ~ui.hasMore

\* C36 (as stated): fetchAccountNFTs reports hasMore exactly when the mirror
\* response carries a next cursor, and after loading all pages each serial the
\* account holds is listed exactly once (and no other serial is listed).
C36_ListedExactlyOnce ==
    /\ \A load \in ui.loads :
          LET data == FetchNFTsWithPagination(oldOwner, load.limit, load.nextLink)
              result == FetchAccountNFTs(oldOwner, load.limit, load.nextLink) IN
          result.hasMore <=> data.links.next # NoLink
    /\ AllPagesLoaded =>
          \A s \in AllSerials :
             Occurrences(ui.nfts, s) = IF oldOwner[s] = ClientUser THEN 1 ELSE 0


\* A step in which a call of fetchFromMirrorNode calls getNextMirrorNode: it
\* leaves an endpoint close to its limit and goes round the loop again, or it
\* counts an attempt after a 429, a non-OK status or a network error.
Rotates ==
    \E c \in FetchIds :
       \/ fetches'[c].attempts = fetches[c].attempts + 1
       \/ /\ fetches[c].pc = "loop" /\ fetches'[c].pc = "loop"
          /\ mirror.running = c /\ mirror'.running = c
          /\ mirror'.windows = mirror.windows

\* C37: the rotation index is always a valid index of the endpoint list,
\* 0 <= currentNodeIndex < number of endpoints; each rotation advances it by
\* exactly one position modulo the length of the list, and no other step
\* changes it.
C37_RotationIndex ==
    [][/\ mirror.currentNodeIndex \in 0..(Len(MIRROR_NODES) - 1)
       /\ mirror'.currentNodeIndex \in 0..(Len(MIRROR_NODES) - 1)
       /\ mirror'.currentNodeIndex =
             IF Rotates
             THEN (mirror.currentNodeIndex + 1) % Len(MIRROR_NODES)
             ELSE mirror.currentNodeIndex]_vars

\* Witness for C37: a call that started at the last endpoint has rotated
\* three times, wrapping around to the first endpoint and on to the last.
C37_Witness ==
    \E c \in FetchIds :
       /\ fetches[c].pc = "failed"
       /\ fetches[c].attempts = DefaultMaxRetries
       /\ \A d \in FetchIds \ {c} : fetches[d].pc = "idle"
       /\ mirror.currentNodeIndex = 0

====
